---- MODULE Spec2Model ----
(***************************************************************************)
(* A model of the rpaste paste-encryption client (src/rpaste/src/main.rs): *)
(* base58_encode, generate_kdf_key, prepare_paste_data,                    *)
(* prepare_associated_data, privatebin_encrypt, privatebin_send and main.  *)
(*                                                                         *)
(* Byte strings are sequences over 0..255.  Rust Strings whose characters  *)
(* are inspected (the base58 text) are sequences of one-character strings; *)
(* other Strings are TLA+ strings.  The u128 accumulator of base58_encode  *)
(* is kept at its full width as 16 little-endian byte limbs.  PBKDF2,      *)
(* AES-GCM, zlib and the base64 of a sealed blob are symbolic              *)
(* constructors (records) with the usual inverses.                         *)
(*                                                                         *)
(* Three more programs of the repository follow the same scheme, each in   *)
(* a variable of its own: the retry loop of password-generator (pg), the   *)
(* table of todo-cli (todo) and the session loop of progressive-pomodoro   *)
(* with its Ctrl-C handler (pomo).                                         *)
(***************************************************************************)
EXTENDS Integers, Sequences, FiniteSets, TLC

VARIABLES
    build,      \* how integer overflow behaves in this build: "checked" panics, "wrapping" wraps
    b58_in,     \* base58_encode: the byte string v handed to it
    b58_out,    \* base58_encode: what the call produced (NotRun before the call)
    pc,         \* privatebin_send: where each invocation stands
    args,       \* privatebin_send: the arguments of each invocation
    loc,        \* privatebin_send: the locals of each invocation
    result,     \* privatebin_send: what each invocation returned
    posts,      \* the requests each invocation handed to the network, in order
    seals,      \* the seal_in_place_append_tag calls each invocation made, in order
    proc,       \* main: the exit status and the lines printed by each run
    pg,         \* password-generator: the generate_via_api call
    todo,       \* todo-cli: the todo table and the last command run on it
    pomo        \* progressive-pomodoro: one run of main and its Ctrl-C handler

b58vars == <<b58_in, b58_out>>
sendvars == <<pc, args, loc, result, posts, seals, proc>>
toolvars == <<pg, todo, pomo>>
vars == <<build, b58_in, b58_out, pc, args, loc, result, posts, seals, proc, pg, todo, pomo>>

Builds == {"checked", "wrapping"}

(***************************************************************************)
(* Bounds of the model.                                                    *)
(***************************************************************************)
MaxShortLen == 3
NumCalls == 2

(***************************************************************************)
(* Generic helpers.                                                        *)
(***************************************************************************)
Rep(n, x) == [k \in 1..n |-> x]

Reverse(s) == [k \in 1..Len(s) |-> s[Len(s) + 1 - k]]

RECURSIVE LeadingCount(_, _)
LeadingCount(s, x) ==
    IF s = <<>> \/ s[1] # x THEN 0 ELSE 1 + LeadingCount(Tail(s), x)

DropLeading(s, x) == SubSeq(s, LeadingCount(s, x) + 1, Len(s))

RECURSIVE SeqsUpTo(_, _)
SeqsUpTo(S, n) ==
    IF n = 0 THEN {<<>>}
    ELSE LET shorter == SeqsUpTo(S, n - 1)
         IN  shorter \cup {Append(s, x) : s \in {t \in shorter : Len(t) = n - 1}, x \in S}

(***************************************************************************)
(* Unsigned integers wider than 32-bit machine integers: a value is       *)
(* a sequence of byte limbs, least significant first.                      *)
(***************************************************************************)
U128_LIMBS == 16
U128_BITS == 128

IsZero(x) == \A k \in 1..Len(x) : x[k] = 0

\* x + (c << 8*(pos-1)) over Len(x) limbs; carry out of the top limb is reported.
RECURSIVE AddAt(_, _, _)
AddAt(x, pos, c) ==
    IF c = 0 THEN [val |-> x, overflow |-> FALSE]
    ELSE IF pos > Len(x) THEN [val |-> x, overflow |-> TRUE]
    ELSE LET sum == x[pos] + c
         IN  AddAt([x EXCEPT ![pos] = sum % 256], pos + 1, sum \div 256)

\* Long division of x by d, from the most significant limb down.
RECURSIVE DivStep(_, _, _, _)
DivStep(x, d, k, rem) ==
    IF k = 0 THEN [q |-> x, r |-> rem]
    ELSE LET cur == rem * 256 + x[k]
         IN  DivStep([x EXCEPT ![k] = cur \div d], d, k - 1, cur % d)

DivMod(x, d) == DivStep(x, d, Len(x), 0)

\* x * m + a, growing by as many limbs as the carry needs.
RECURSIVE MulAddStep(_, _, _, _)
MulAddStep(x, m, k, carry) ==
    IF k > Len(x)
    THEN IF carry = 0 THEN x ELSE MulAddStep(Append(x, 0), m, k, carry)
    ELSE LET cur == x[k] * m + carry
         IN  MulAddStep([x EXCEPT ![k] = cur % 256], m, k + 1, cur \div 256)

MulAdd(x, m, a) == MulAddStep(x, m, 1, a)

RECURSIVE StripHighZeros(_)
StripHighZeros(x) ==
    IF x # <<>> /\ x[Len(x)] = 0 THEN StripHighZeros(SubSeq(x, 1, Len(x) - 1)) ELSE x

(***************************************************************************)
(* base58_encode                                                           *)
(***************************************************************************)
alphabet ==
    << "1", "2", "3", "4", "5", "6", "7", "8", "9",
       "A", "B", "C", "D", "E", "F", "G", "H", "J", "K", "L", "M", "N", "P", "Q",
       "R", "S", "T", "U", "V", "W", "X", "Y", "Z",
       "a", "b", "c", "d", "e", "f", "g", "h", "i", "j", "k", "m", "n", "o", "p",
       "q", "r", "s", "t", "u", "v", "w", "x", "y", "z" >>

\* `(c as u128) << (8 * i)` then `x += ...`, for the byte c at reversed index i.
\* A shift amount of 128 or more, or a sum past 2^128, panics in a build with
\* overflow checks; otherwise the shift amount is masked to 7 bits and the sum wraps.
ShiftAdd(bld, x, c, i) ==
    LET shift == 8 * i
        masked == shift % U128_BITS
        added == AddAt(x, (masked \div 8) + 1, c)
    IN  IF bld = "checked" /\ (shift >= U128_BITS \/ added.overflow)
        THEN [panic |-> TRUE, x |-> x]
        ELSE [panic |-> FALSE, x |-> added.val]

\* The loop `for (i, &c) in v.iter().rev().enumerate()`, from index i on.
RECURSIVE Accumulate(_, _, _, _)
Accumulate(bld, rev, i, x) ==
    IF i >= Len(rev) THEN [panic |-> FALSE, x |-> x]
    ELSE LET step == ShiftAdd(bld, x, rev[i + 1], i)
         IN  IF step.panic THEN step ELSE Accumulate(bld, rev, i + 1, step.x)

\* The loop `while x > 0`: the base-58 digits of x, most significant first.
RECURSIVE Digits58(_)
Digits58(x) ==
    IF IsZero(x) THEN <<>>
    ELSE LET dm == DivMod(x, Len(alphabet))
         IN  Append(Digits58(dm.q), alphabet[dm.r + 1])

base58_encode(bld, v) ==
    LET n_pad == LeadingCount(v, 0)
        rest == DropLeading(v, 0)
        acc == Accumulate(bld, Reverse(rest), 0, Rep(U128_LIMBS, 0))
    IN  IF acc.panic
        THEN [panic |-> TRUE, s |-> <<>>]
        ELSE [panic |-> FALSE, s |-> Rep(n_pad, alphabet[1]) \o Digits58(acc.x)]

(***************************************************************************)
(* The reference Bitcoin-style base58 (the encoding a decoder expects):    *)
(* the bytes after the zero run are one big-endian integer of their full   *)
(* width.                                                                  *)
(***************************************************************************)
RefBase58Encode(v) ==
    Rep(LeadingCount(v, 0), alphabet[1]) \o Digits58(Reverse(DropLeading(v, 0)))

AlphaIndex(ch) == CHOOSE k \in 1..Len(alphabet) : alphabet[k] = ch

RECURSIVE DecodeDigits(_, _)
DecodeDigits(s, x) ==
    IF s = <<>> THEN x
    ELSE DecodeDigits(Tail(s), MulAdd(x, Len(alphabet), AlphaIndex(s[1]) - 1))

RefBase58Decode(s) ==
    Rep(LeadingCount(s, alphabet[1]), 0)
        \o Reverse(StripHighZeros(DecodeDigits(DropLeading(s, alphabet[1]), <<>>)))

(***************************************************************************)
(* Option<T>, Rust strings, base64.                                        *)
(***************************************************************************)
None == [some |-> FALSE]
Some(x) == [some |-> TRUE, v |-> x]

\* str::as_bytes for the strings the model passes as passwords.
as_bytes(s) ==
    CASE s = "" -> <<>>
      [] s = "pw" -> <<112, 119>>
      [] s = "s3cret" -> <<115, 51, 99, 114, 101, 116>>

B64Alphabet ==
    << "A", "B", "C", "D", "E", "F", "G", "H", "I", "J", "K", "L", "M", "N", "O", "P",
       "Q", "R", "S", "T", "U", "V", "W", "X", "Y", "Z", "a", "b", "c", "d", "e", "f",
       "g", "h", "i", "j", "k", "l", "m", "n", "o", "p", "q", "r", "s", "t", "u", "v",
       "w", "x", "y", "z", "0", "1", "2", "3", "4", "5", "6", "7", "8", "9", "+", "/" >>

\* general_purpose::STANDARD.encode: three bytes to four characters, '=' padded.
RECURSIVE Base64(_)
Base64(b) ==
    IF b = <<>> THEN ""
    ELSE LET n == Len(b)
             b1 == b[1]
             b2 == IF n >= 2 THEN b[2] ELSE 0
             b3 == IF n >= 3 THEN b[3] ELSE 0
             c1 == B64Alphabet[(b1 \div 4) + 1]
             c2 == B64Alphabet[((b1 % 4) * 16 + (b2 \div 16)) + 1]
             c3 == IF n >= 2 THEN B64Alphabet[((b2 % 16) * 4 + (b3 \div 64)) + 1] ELSE "="
             c4 == IF n >= 3 THEN B64Alphabet[(b3 % 64) + 1] ELSE "="
         IN  c1 \o c2 \o c3 \o c4 \o (IF n > 3 THEN Base64(SubSeq(b, 4, n)) ELSE "")

(***************************************************************************)
(* serde_json, compact form.  A JSON text is its sequence of tokens; a     *)
(* token is a record [k, s]: punctuation, an object key (with its colon),  *)
(* a string value, a number, null, or the base64 text of a sealed blob.    *)
(***************************************************************************)
P(s) == [k |-> "punct", s |-> s]
K(s) == [k |-> "key", s |-> s]
S(s) == [k |-> "str", s |-> s]
N(n) == [k |-> "num", s |-> ToString(n)]
Null == [k |-> "null", s |-> "null"]
B64Tok(x) == [k |-> "b64", s |-> x]

OptStr(o) == IF o.some THEN S(o.v) ELSE Null

\* #[derive(Serialize)] struct PasteData: `paste` is always written (null when
\* absent); the two attachment fields carry skip_serializing_if = "Option::is_none".
SerPasteData(pd) ==
    <<P("{"), K("paste"), OptStr(pd.paste)>>
        \o (IF pd.attachment.some THEN <<P(","), K("attachment"), S(pd.attachment.v)>> ELSE <<>>)
        \o (IF pd.attachment_name.some
            THEN <<P(","), K("attachment_name"), S(pd.attachment_name.v)>> ELSE <<>>)
        \o <<P("}")>>

\* [String; 8] as a JSON array of strings.
SerCipher(c) ==
    <<P("[")>>
        \o <<S(c[1]), P(","), S(c[2]), P(","), S(c[3]), P(","), S(c[4]), P(","),
             S(c[5]), P(","), S(c[6]), P(","), S(c[7]), P(","), S(c[8])>>
        \o <<P("]")>>

\* #[derive(Serialize)] struct PasteAdata: a JSON object, fields in declaration order.
SerPasteAdata(a) ==
    <<P("{"), K("cipher")>> \o SerCipher(a.cipher)
        \o <<P(","), K("formatter"), S(a.formatter),
             P(","), K("opendiscussion"), N(a.opendiscussion),
             P(","), K("burn"), N(a.burn), P("}")>>

\* #[derive(Serialize)] struct Payload / PasteMeta.
SerPayload(p) ==
    <<P("{"), K("v"), N(p.v), P(","), K("adata")>> \o SerPasteAdata(p.adata)
        \o <<P(","), K("ct"), p.ct, P(","), K("meta"),
             P("{"), K("expire"), S(p.meta.expire), P("}"), P("}")>>

NoAdata == [cipher |-> Rep(8, ""), formatter |-> "", opendiscussion |-> 0, burn |-> 0]

IsU8(tok) == tok.k = "num" /\ \E n \in 0..255 : ToString(n) = tok.s
U8Of(tok) == CHOOSE n \in 0..255 : ToString(n) = tok.s

\* The value of `"cipher":` starting at token i: an array of exactly 8 strings.
CipherAt(t, i) ==
    /\ i + 16 <= Len(t)
    /\ t[i] = P("[")
    /\ \A j \in 0..7 : t[i + 1 + 2 * j].k = "str"
    /\ \A j \in 0..6 : t[i + 2 + 2 * j] = P(",")
    /\ t[i + 16] = P("]")

\* serde_json::from_slice::<PasteAdata>, the members of the object from token i on.
\* `seen` is the set of fields read so far, `acc` their values.
RECURSIVE ParseAdataMembers(_, _, _, _)
ParseAdataMembers(t, i, seen, acc) ==
    LET fail == [ok |-> FALSE, v |-> NoAdata]
        after(next, name, acc2) ==
            IF next > Len(t) THEN fail
            ELSE IF t[next] = P(",") THEN ParseAdataMembers(t, next + 1, seen \cup {name}, acc2)
            ELSE IF t[next] = P("}") /\ next = Len(t)
                    /\ seen \cup {name} = {"cipher", "formatter", "opendiscussion", "burn"}
                 THEN [ok |-> TRUE, v |-> acc2]
            ELSE fail
    IN  IF i + 1 > Len(t) \/ t[i].k # "key" \/ t[i].s \in seen THEN fail
        ELSE CASE t[i].s = "cipher" ->
                    IF CipherAt(t, i + 1)
                    THEN after(i + 18, "cipher",
                               [acc EXCEPT !.cipher = [j \in 1..8 |-> t[i + 2 * j].s]])
                    ELSE fail
               [] t[i].s = "formatter" ->
                    IF t[i + 1].k = "str"
                    THEN after(i + 2, "formatter", [acc EXCEPT !.formatter = t[i + 1].s])
                    ELSE fail
               [] t[i].s = "opendiscussion" ->
                    IF IsU8(t[i + 1])
                    THEN after(i + 2, "opendiscussion",
                               [acc EXCEPT !.opendiscussion = U8Of(t[i + 1])])
                    ELSE fail
               [] t[i].s = "burn" ->
                    IF IsU8(t[i + 1])
                    THEN after(i + 2, "burn", [acc EXCEPT !.burn = U8Of(t[i + 1])])
                    ELSE fail
               [] OTHER -> fail

ParsePasteAdata(t) ==
    IF Len(t) >= 2 /\ t[1] = P("{")
    THEN ParseAdataMembers(t, 2, {}, NoAdata)
    ELSE [ok |-> FALSE, v |-> NoAdata]

(***************************************************************************)
(* Constants of src/rpaste/src/main.rs.                                    *)
(***************************************************************************)
KDF_ITERATIONS == 100000
KDF_KEYSIZE == 256
ADATA_SIZE == 96
PASSPHRASE_LEN == 32
KDF_SALT_LEN == 8
CIPHER_IV_LEN == 12
AES_256_KEY_LEN == 32
PAYLOAD_VERSION == 2

(***************************************************************************)
(* ring::pbkdf2 and ring::aead, flate2: symbolic constructors.             *)
(***************************************************************************)
pbkdf2_derive(salt, secret, len) ==
    [alg |-> "PBKDF2_HMAC_SHA256", iterations |-> KDF_ITERATIONS,
     salt |-> salt, secret |-> secret, len |-> len]

NoKey == pbkdf2_derive(<<>>, <<>>, 0)

seal_in_place_append_tag(key, nonce, aad, data) ==
    [alg |-> "AES_256_GCM", key |-> key, nonce |-> nonce, aad |-> aad, pt |-> data]

NoBlob == [zlib |-> FALSE, json |-> <<>>]
NoSealed == seal_in_place_append_tag(NoKey, <<>>, <<>>, NoBlob)

\* generate_kdf_key: the salt is the 8 bytes the rng filled in.
generate_kdf_key(passphrase, kdf_salt) ==
    [key |-> pbkdf2_derive(kdf_salt, passphrase, KDF_KEYSIZE \div 8), salt |-> kdf_salt]

\* As final_passphrase, with a zero byte between passphrase and password.
final_passphrase_separated(passphrase, password) ==
    IF password.some THEN passphrase \o <<0>> \o as_bytes(password.v) ELSE passphrase

\* privatebin_encrypt, lines 258-264: the KDF input.
final_passphrase(passphrase, password) ==
    IF password.some THEN passphrase \o as_bytes(password.v) ELSE passphrase

\* prepare_paste_data: the JSON of PasteData, through ZlibEncoder when compress.
prepare_paste_data(plaintext, attachment_name, attachment, compress) ==
    [zlib |-> compress,
     json |-> SerPasteData([paste |-> plaintext, attachment |-> attachment,
                            attachment_name |-> attachment_name])]

BoolU8(b) == IF b THEN 1 ELSE 0

\* As prepare_associated_data, with "zlib" written whatever the compression type.
prepare_associated_data_zlib_only(cipher_iv, kdf_salt, formatter, opendiscussion, burn, compression_type) ==
    SerPasteAdata([cipher |-> << Base64(cipher_iv), Base64(kdf_salt),
                                 ToString(KDF_ITERATIONS), ToString(KDF_KEYSIZE),
                                 ToString(ADATA_SIZE), "aes", "gcm", "zlib" >>,
                   formatter |-> formatter,
                   opendiscussion |-> BoolU8(opendiscussion),
                   burn |-> BoolU8(burn)])

\* As prepare_associated_data, the JSON assembled with burn ahead of opendiscussion.
prepare_associated_data_burn_first(cipher_iv, kdf_salt, formatter, opendiscussion, burn, compression_type) ==
    <<P("{"), K("cipher")>>
        \o SerCipher(<< Base64(cipher_iv), Base64(kdf_salt), ToString(KDF_ITERATIONS),
                        ToString(KDF_KEYSIZE), ToString(ADATA_SIZE), "aes", "gcm",
                        compression_type >>)
        \o <<P(","), K("formatter"), S(formatter),
             P(","), K("burn"), N(BoolU8(burn)),
             P(","), K("opendiscussion"), N(BoolU8(opendiscussion)), P("}")>>

\* prepare_associated_data: the bytes handed to the cipher as Aad.
prepare_associated_data(cipher_iv, kdf_salt, formatter, opendiscussion, burn, compression_type) ==
    SerPasteAdata([cipher |-> << Base64(cipher_iv), Base64(kdf_salt),
                                 ToString(KDF_ITERATIONS), ToString(KDF_KEYSIZE),
                                 ToString(ADATA_SIZE), "aes", "gcm", compression_type >>,
                   formatter |-> formatter,
                   opendiscussion |-> BoolU8(opendiscussion),
                   burn |-> BoolU8(burn)])

Err(variant, msg, status, response) ==
    [kind |-> "Err", variant |-> variant, msg |-> msg, status |-> status, response |-> response]

NoResult == [kind |-> "None"]
Panicked == [kind |-> "Panic"]

\* privatebin_encrypt, lines 272-298, given the key, salt and IV already made.
privatebin_encrypt(a, kdf_key, kdf_salt, cipher_iv) ==
    LET compression_type == IF a.compress THEN "zlib" ELSE "none"
        paste_blob == prepare_paste_data(a.plaintext, a.attachment_name, a.attachment, a.compress)
        paste_adata == prepare_associated_data(cipher_iv, kdf_salt, a.formatter,
                                               a.opendiscussion, a.burn, compression_type)
        data == seal_in_place_append_tag(kdf_key, cipher_iv, paste_adata, paste_blob)
        parsed == ParsePasteAdata(paste_adata)
        fail(msg) == [ok |-> FALSE, err |-> Err("InvalidResponse", msg, None, None),
                      sealed |-> FALSE, adata |-> NoAdata, ct |-> NoSealed]
    IN  IF kdf_key.len # AES_256_KEY_LEN THEN fail("Failed to create AES key")
        ELSE IF Len(cipher_iv) # CIPHER_IV_LEN THEN fail("Invalid nonce")
        ELSE IF ~parsed.ok THEN [fail("invalid adata") EXCEPT !.sealed = TRUE, !.ct = data]
        ELSE [ok |-> TRUE, err |-> NoResult, sealed |-> TRUE, adata |-> parsed.v, ct |-> data]

(***************************************************************************)
(* URLs, requests and responses.  A &str url is kept as the part a         *)
(* starts_with test looks at and the rest; its text is their concatenation.*)
(***************************************************************************)
Url(scheme, rest) == [scheme |-> scheme, rest |-> rest]
UrlText(u) == u.scheme \o u.rest
\* As starts_with, satisfied by any scheme at the head of the URL.
starts_with_any_scheme(u, prefix) == u.scheme # ""

starts_with(u, prefix) == u.scheme = prefix

DEFAULT_PASTE_URL == Url("https://", "snip.dssr.ch/")

Calls == 1..NumCalls

\* As PostUrl, with an API path appended to the base URL.
PostUrlApiNew(url) == UrlText(url) \o "/api/new"

\* The URL handed to client.post.
PostUrl(url) == UrlText(url)

\* The header set of the request builder (lines 350-361).
PostHeaders ==
    { <<"User-Agent", "rpaste/0.1.1">>,
      <<"X-Requested-With", "JSONHttpRequest">>,
      <<"Content-Type", "application/json">> }

\* Payload { v, adata, ct, meta } (lines 336-343).
BuildPayload(adata, ct, expire) ==
    [v |-> PAYLOAD_VERSION, adata |-> adata, ct |-> B64Tok(ct), meta |-> [expire |-> expire]]

\* As BuildRequest, posting to the share link: the URL with the key material as fragment.
BuildRequestToShareLink(url, payload) ==
    [method |-> "POST",
     url |-> UrlText(url) \o "#" \o ToString(payload.ct.s.key.secret),
     headers |-> { <<"User-Agent", "rpaste/0.1.1">>,
                   <<"X-Requested-With", "JSONHttpRequest">>,
                   <<"Content-Type", "application/json">> },
     body |-> SerPayload(payload)]

\* client.post(url).header(..).header(..).json(&payload) (lines 357-361).
BuildRequest(url, payload) ==
    [method |-> "POST", url |-> PostUrl(url), headers |-> PostHeaders,
     body |-> SerPayload(payload)]

\* A JSON value of a response document: absent, null, a number or a string.
JAbsent == [t |-> "absent", n |-> 0, s |-> ""]
JNull == [t |-> "null", n |-> 0, s |-> ""]
JNum(n) == [t |-> "num", n |-> n, s |-> ""]
JStr(s) == [t |-> "str", n |-> 0, s |-> s]

ResponseFields == <<"status", "id", "url", "deletetoken", "message">>

Doc(status, id, url, deletetoken, message) ==
    [status |-> status, id |-> id, url |-> url, deletetoken |-> deletetoken, message |-> message]

NoDoc == Doc(JAbsent, JAbsent, JAbsent, JAbsent, JAbsent)

RenderValue(j) ==
    CASE j.t = "null" -> "null"
      [] j.t = "num" -> ToString(j.n)
      [] j.t = "str" -> "\"" \o j.s \o "\""

\* The text a server writes for a document: the present members, in order.
RECURSIVE RenderMembers(_, _, _)
RenderMembers(doc, i, first) ==
    IF i > Len(ResponseFields) THEN ""
    ELSE LET f == ResponseFields[i]
         IN  IF doc[f].t = "absent" THEN RenderMembers(doc, i + 1, first)
             ELSE (IF first THEN "" ELSE ",") \o "\"" \o f \o "\":" \o RenderValue(doc[f])
                      \o RenderMembers(doc, i + 1, FALSE)

JsonBody(doc) == [raw |-> "{" \o RenderMembers(doc, 1, TRUE) \o "}", json |-> TRUE, doc |-> doc]
TextBody(raw) == [raw |-> raw, json |-> FALSE, doc |-> NoDoc]

\* str::trim().is_empty(), over the bodies the model serves.
trim_is_empty(raw) == raw \in {"", " ", "\n", " \r\n\t"}

HttpResponse(status, body) == [net |-> "http", why |-> "", status |-> status, body |-> body]
TransportFailure(why) == [net |-> "error", why |-> why, status |-> 0, body |-> TextBody("")]
\* The headers arrive and reading the body then fails (response.text() is Err).
BodyReadFailure(status) == [net |-> "body", why |-> "body", status |-> status, body |-> TextBody("")]

NoResponse == [net |-> "none", why |-> "", status |-> 0, body |-> TextBody("")]

\* Option<u8> / Option<String> of #[derive(Deserialize)] struct PasteResponse.
OptU8Ok(j) == j.t \in {"absent", "null"} \/ (j.t = "num" /\ j.n >= 0 /\ j.n <= 255)
OptU8(j) == IF j.t = "num" THEN Some(j.n) ELSE None
OptStringOk(j) == j.t \in {"absent", "null", "str"}
\* As OptString, an absent or null member read as the empty string.
OptStringOrEmpty(j) == IF j.t = "str" THEN Some(j.s) ELSE Some("")
OptString(j) == IF j.t = "str" THEN Some(j.s) ELSE None

\* serde_json::from_str::<PasteResponse>(&response_text) (line 394).
ParsePasteResponse(body) ==
    IF /\ body.json
       /\ OptU8Ok(body.doc.status)
       /\ OptStringOk(body.doc.id) /\ OptStringOk(body.doc.url)
       /\ OptStringOk(body.doc.deletetoken) /\ OptStringOk(body.doc.message)
    THEN [ok |-> TRUE,
          status |-> OptU8(body.doc.status), id |-> OptString(body.doc.id),
          url |-> OptString(body.doc.url), deletetoken |-> OptString(body.doc.deletetoken),
          error_message |-> OptString(body.doc.message)]
    ELSE [ok |-> FALSE, status |-> None, id |-> None, url |-> None, deletetoken |-> None,
          error_message |-> None]

\* As HttpStatusMessage, with one arm for every 5xx status.
HttpStatusMessageAny5xx(status, otherwise) ==
    IF status >= 500
    THEN "Server internal error (500) - The server encountered an error processing your request"
    ELSE otherwise

\* The `match status` of lines 374-385 and 403-416.
HttpStatusMessage(status, otherwise) ==
    CASE status = 500 ->
           "Server internal error (500) - The server encountered an error processing your request"
      [] status = 503 ->
           "Service unavailable (503) - The server is temporarily unable to handle your request"
      [] status = 502 ->
           "Bad gateway (502) - The server received an invalid response from upstream"
      [] OTHER -> otherwise

\* As ParseFailure, the error made of serde's message alone.
ParseFailureWithoutBody(raw) ==
    Err("InvalidResponse", "Failed to parse response as JSON: " \o "invalid document", None, None)

\* The map_err of lines 394-399: serde's message, then the response text.
ParseFailure(raw) ==
    Err("InvalidResponse",
        "Failed to parse response as JSON: " \o "invalid document" \o "\nResponse body: " \o raw,
        None, None)

\* privatebin_send from the result of send() on (lines 363-436).
HandleResponse(bld, passphrase, r) ==
    IF r.net = "error"
    THEN Err("ApiError", "error sending request: " \o r.why, None, None)
    ELSE IF r.net = "body"
    THEN Err("InvalidResponse", "Failed to read response: " \o r.why, None, None)
    ELSE IF trim_is_empty(r.body.raw)
    THEN Err("ApiError",
             HttpStatusMessage(r.status, "Empty response from server")
                 \o " (Status: " \o ToString(r.status) \o ")",
             Some(r.status), None)
    ELSE LET res == ParsePasteResponse(r.body)
         IN  IF ~res.ok
             THEN ParseFailure(r.body.raw)
             ELSE IF res.status.some /\ res.status.v # 0
             THEN Err("ApiError",
                      HttpStatusMessage(r.status,
                                        IF res.error_message.some THEN res.error_message.v
                                        ELSE "Unknown error"),
                      Some(r.status), Some(r.body.raw))
             ELSE IF ~res.id.some THEN Err("InvalidResponse", "Missing ID", None, None)
             ELSE IF ~res.url.some THEN Err("InvalidResponse", "Missing URL", None, None)
             ELSE IF ~res.deletetoken.some
             THEN Err("InvalidResponse", "Missing delete token", None, None)
             ELSE LET secret == base58_encode(bld, passphrase)
                  IN  IF secret.panic THEN Panicked
                      ELSE [kind |-> "Ok", id |-> res.id.v, url |-> res.url.v,
                            deletetoken |-> res.deletetoken.v, secret |-> secret.s]

(***************************************************************************)
(* The inputs the model draws from.                                        *)
(***************************************************************************)
\* n bytes: z zero bytes, then the byte a, then bytes b.
Pattern(n, z, a, b) == [k \in 1..n |-> IF k <= z THEN 0 ELSE IF k = z + 1 THEN a ELSE b]

B58Bytes == {0, 1, 58, 255}
LongLens == {15, 16, 17, 32}

B58Inputs ==
    SeqsUpTo(B58Bytes, MaxShortLen)
        \cup {Pattern(n, z, a, b) : n \in LongLens, z \in 0..2, a \in {1, 255}, b \in {0, 255}}

PassphraseSamples ==
    { Pattern(PASSPHRASE_LEN, 0, 1, 0), Pattern(PASSPHRASE_LEN, 0, 255, 255),
      Pattern(PASSPHRASE_LEN, 16, 7, 9), Pattern(PASSPHRASE_LEN, 3, 200, 3) }

SaltSamples == { Rep(KDF_SALT_LEN, 0), [k \in 1..KDF_SALT_LEN |-> 16 * k + 1] }
IvSamples == { Rep(CIPHER_IV_LEN, 255), [k \in 1..CIPHER_IV_LEN |-> k] }

MkArgs(url, password, plaintext, formatter, att, compress, burn, opendiscussion, expire) ==
    [url |-> url, password |-> password, plaintext |-> plaintext, formatter |-> formatter,
     attachment_name |-> att[1], attachment |-> att[2],
     compress |-> compress, burn |-> burn, opendiscussion |-> opendiscussion, expire |-> expire]

NoAttachment == <<None, None>>
AnAttachment == <<Some("a.txt"), Some("data:text/plain;base64,aGk=")>>

\* What main passes when run with a text on stdin and no options (lines 569-621).
BaseArgs ==
    MkArgs(DEFAULT_PASTE_URL, Some(""), Some("hello"), "plaintext", NoAttachment,
           TRUE, FALSE, FALSE, "1month")

NoArgs == MkArgs(Url("", ""), None, None, "", NoAttachment, FALSE, FALSE, FALSE, "")

AllArgs ==
    { MkArgs(u, pw, pt, f, at, cz, bn, od, ex) :
        u \in {DEFAULT_PASTE_URL, Url("http://", "localhost:8080/"),
               Url("", "snip.dssr.ch/"), Url("ftp://", "snip.dssr.ch/")},
        pw \in {Some(""), None, Some("pw")},
        pt \in {Some("hello"), None},
        f \in {"plaintext", "markdown", "syntaxhighlighting"},
        at \in {NoAttachment, AnAttachment},
        cz \in BOOLEAN, bn \in BOOLEAN, od \in BOOLEAN,
        ex \in {"1month", "never"} }

ArgFields ==
    {"url", "password", "plaintext", "formatter", "attachment",
     "compress", "burn", "opendiscussion", "expire"}

\* BaseArgs, every change of one field of it, and the content/URL combinations
\* that decide which check of privatebin_send fires first.
ArgSamples ==
    {a \in AllArgs : Cardinality({f \in ArgFields : a[f] # BaseArgs[f]}) <= 1}
        \cup { [BaseArgs EXCEPT !.plaintext = None, !.attachment_name = AnAttachment[1],
                                !.attachment = AnAttachment[2]],
               [BaseArgs EXCEPT !.plaintext = None, !.url = Url("", "snip.dssr.ch/")],
               [BaseArgs EXCEPT !.password = None, !.compress = FALSE] }

GoodDoc(status) == Doc(status, JStr("abc123"), JStr("/?abc123"), JStr("tok9"), JAbsent)

BodySamples ==
    { TextBody(""), TextBody(" \r\n\t"), TextBody("<html>Bad Gateway</html>"),
      JsonBody(GoodDoc(JNum(0))),
      JsonBody(GoodDoc(JAbsent)),
      JsonBody([GoodDoc(JNull) EXCEPT !.message = JNull]),
      JsonBody(Doc(JNum(1), JAbsent, JAbsent, JAbsent, JStr("bad request"))),
      JsonBody(Doc(JNum(1), JAbsent, JAbsent, JAbsent, JAbsent)),
      JsonBody([GoodDoc(JNum(1)) EXCEPT !.message = JStr("Invalid data.")]),
      JsonBody(Doc(JNum(256), JAbsent, JAbsent, JAbsent, JStr("too big"))),
      JsonBody([GoodDoc(JNum(0)) EXCEPT !.id = JAbsent]),
      JsonBody([GoodDoc(JNum(0)) EXCEPT !.url = JAbsent]),
      JsonBody([GoodDoc(JNum(0)) EXCEPT !.deletetoken = JAbsent]) }

HttpSamples == {200, 400, 500, 502, 503}

ResponseSamples ==
    {HttpResponse(st, b) : st \in HttpSamples, b \in BodySamples}
        \cup {TransportFailure(w) : w \in {"connect", "timeout", "dns"}}
        \cup {BodyReadFailure(200)}

\* The narrower inputs of the runs with several invocations in flight.
ConcArgs == {BaseArgs, [BaseArgs EXCEPT !.password = Some("pw")]}
ConcPassphrases == {Pattern(PASSPHRASE_LEN, 16, 7, 9), Pattern(PASSPHRASE_LEN, 12, 200, 3)}
ConcSalts == {Rep(KDF_SALT_LEN, 0)}
ConcIvs == {Rep(CIPHER_IV_LEN, 255)}
ConcResponses == {HttpResponse(200, JsonBody(GoodDoc(JNum(0))))}

(***************************************************************************)
(* Random draws.  Each fill of the thread rng is one draw; a draw carries  *)
(* the invocation that made it and its rank among that invocation's draws, *)
(* next to the bytes it produced.                                          *)
(***************************************************************************)
NoTag == [by |-> 0, n |-> 0]
Draw(c, n, bytes) == [tag |-> [by |-> c, n |-> n], bytes |-> bytes]

\* rng.fill(&mut passphrase) in privatebin_send (lines 321-323).
DrawnPassphrase(c, bytes, log) == Draw(c, 1, bytes)
\* rand::rng().fill(&mut kdf_salt[..]) in generate_kdf_key (lines 173-174).
DrawnSalt(c, bytes, log) == Draw(c, 2, bytes)
\* As DrawnIv, with the IV kept in a process-wide cell: once some invocation has
\* sealed, its IV is handed out again.
DrawnIvCached(c, bytes, log) ==
    IF \E d \in DOMAIN log : d # c /\ log[d] # <<>>
    THEN LET d == CHOOSE d \in DOMAIN log : d # c /\ log[d] # <<>>
         IN  [tag |-> log[d][1].used.iv, bytes |-> log[d][1].nonce]
    ELSE Draw(c, 3, bytes)

\* rand::rng().fill(&mut cipher_iv[..]) in privatebin_encrypt (lines 269-270).
DrawnIv(c, bytes, log) == Draw(c, 3, bytes)

NoLoc ==
    [passphrase |-> <<>>, passTag |-> NoTag,
     kdf_key |-> NoKey, kdf_salt |-> <<>>, saltTag |-> NoTag,
     cipher_iv |-> <<>>, ivTag |-> NoTag,
     adata |-> NoAdata, ct |-> NoSealed, response |-> NoResponse]

(***************************************************************************)
(* main: what a run prints and how it exits.                               *)
(***************************************************************************)
EXIT_SUCCESS == 0
EXIT_FAILURE == 1
EXIT_PANIC == 101

Running == [exit |-> None, stdout |-> <<>>]

\* println!("\x1b[92mPaste ({}): \x1b[0m{}{}#{}", formatter, base, url, passphrase).
PasteLine(formatter, base, url, secret) ==
    [line |-> "Paste", formatter |-> formatter, link |-> base \o url, fragment |-> secret]

\* println!("\x1b[31mDelete paste: \x1b[0m{}/?pasteid={}&deletetoken={}", base, id, token).
DeleteLine(base, id, deletetoken) ==
    [line |-> "Delete paste",
     link |-> base \o "/?pasteid=" \o id \o "&deletetoken=" \o deletetoken]

\* The errors main returns before it calls privatebin_send.
MainErrors ==
    { Err("InvalidOptions", "Cannot specify both --source and --markdown", None, None),
      Err("FileOpen", "No such file or directory (os error 2)", None, None),
      Err("NoData", "", None, None),
      Err("LanguageDetection", "syntax detection failed", None, None) }

(***************************************************************************)
(* password-generator (src/password-generator/src/main.rs):                *)
(* generate_via_api and the functions it calls.  A u64 is eight byte       *)
(* limbs, least significant first.                                         *)
(***************************************************************************)
DEFAULT_MAX_RETRIES == 3
INITIAL_RETRY_DELAY_MS == 100
U64_LIMBS == 8

RECURSIVE Limbs(_, _)
Limbs(n, k) == IF k = 0 THEN <<>> ELSE <<n % 256>> \o Limbs(n \div 256, k - 1)

U64(n) == Limbs(n, U64_LIMBS)

\* x * m in u64, m a small factor: a product past 2^64 panics in a build with
\* overflow checks and keeps its low 64 bits otherwise.
u64_mul(bld, x, m) ==
    LET full == StripHighZeros(MulAdd(x, m, 0))
    IN  IF Len(full) > U64_LIMBS
        THEN IF bld = "checked" THEN [panic |-> TRUE, val |-> x]
             ELSE [panic |-> FALSE, val |-> SubSeq(full, 1, U64_LIMBS)]
        ELSE [panic |-> FALSE, val |-> full \o Rep(U64_LIMBS - Len(full), 0)]

\* u64::pow, which inherits the overflow checks of the calling crate.
RECURSIVE u64_pow(_, _, _)
u64_pow(bld, base, exp) ==
    IF exp = 0 THEN [panic |-> FALSE, val |-> U64(1)]
    ELSE LET r == u64_pow(bld, base, exp - 1)
         IN  IF r.panic THEN r ELSE u64_mul(bld, r.val, base)

\* calculate_retry_delay: INITIAL_RETRY_DELAY_MS * 2_u64.pow(attempt - 1).
\* attempt - 1 is a u32 subtraction: at attempt = 0 it panics with overflow
\* checks and otherwise wraps to 2^32 - 1, where the wrapped power of two is 0.
calculate_retry_delay(bld, attempt) ==
    IF attempt = 0
    THEN [panic |-> bld = "checked", val |-> U64(0)]
    ELSE LET p == u64_pow(bld, 2, attempt - 1)
         IN  IF p.panic THEN p ELSE u64_mul(bld, p.val, INITIAL_RETRY_DELAY_MS)

\* As should_retry, true at the last attempt too.
should_retry_always(current_attempt, max_retries) == current_attempt <= max_retries

should_retry(current_attempt, max_retries) == current_attempt < max_retries

is_valid_password_count(passwords, expected_count) == Len(passwords) = expected_count

\* str::trim on the lines the model's bodies are made of.
trim(line) ==
    CASE line = "  " -> ""
      [] line = " pw2 " -> "pw2"
      [] line = "pw3\r" -> "pw3"
      [] OTHER -> line

RECURSIVE FilterNonEmpty(_)
FilterNonEmpty(ls) ==
    IF ls = <<>> THEN <<>>
    ELSE IF ls[1] = "" THEN FilterNonEmpty(Tail(ls))
    ELSE <<ls[1]>> \o FilterNonEmpty(Tail(ls))

\* parse_api_response: the lines of the body, trimmed, the empty ones dropped.
parse_api_response(body) == FilterNonEmpty([k \in 1..Len(body) |-> trim(body[k])])

PgOk(passwords) == [kind |-> "Ok", passwords |-> passwords]
PgErr(msg) == [kind |-> "Err", msg |-> msg]

\* What the GET of try_api_request meets: no response, a status line, or a
\* status and a body that can or cannot be read.  A body is its lines().
PgTransportFailure == [net |-> "error", status |-> 0, reason |-> "", body |-> <<>>]
PgBodyReadFailure == [net |-> "body", status |-> 200, reason |-> "OK", body |-> <<>>]
PgResponse(status, reason, body) == [net |-> "http", status |-> status, reason |-> reason, body |-> body]

is_success(status) == status >= 200 /\ status <= 299

\* try_api_request, from the result of send() on.
try_api_request(r) ==
    IF r.net = "error" THEN PgErr("error sending request")
    ELSE IF ~is_success(r.status)
    THEN PgErr("API returned status: " \o ToString(r.status) \o " " \o r.reason)
    ELSE IF r.net = "body" THEN PgErr("Failed to read response body")
    ELSE PgOk(parse_api_response(r.body))

MaxCount == 2
MaxRetries == 4

PgConfig(count, max_retries) == [count |-> count, max_retries |-> max_retries]
PgConfigs == {PgConfig(n, m) : n \in 0..MaxCount, m \in 0..MaxRetries}

PgBodies ==
    { <<"", "  ">>, <<"pw1">>, <<"pw1", "", " pw2 ">>, <<"pw1", " pw2 ", "pw3\r">> }

PgResponses ==
    {PgTransportFailure, PgBodyReadFailure, PgResponse(503, "Service Unavailable", <<"pw1">>)}
        \cup {PgResponse(200, "OK", b) : b \in PgBodies}

\* Retry limits at and around the widths of the u64 product and power.
LongRetries == {1, 2, 3, 58, 59, 60, 64, 65, 66}
LongConfigs == {PgConfig(1, m) : m \in LongRetries}

PgIdle ==
    [pc |-> "idle", config |-> PgConfig(0, 0), attempt |-> 0, last_error |-> None,
     delay |-> U64(0), result |-> NoResult, log |-> <<>>]


\* The end of one pass of `for attempt in 1..=max_retries`: the next attempt,
\* or past the loop the Err of lines 144-149.
PgNextAttempt(p) ==
    IF p.attempt < p.config.max_retries
    THEN [p EXCEPT !.attempt = @ + 1, !.pc = "request"]
    ELSE [p EXCEPT !.pc = "done",
                   !.result = IF p.last_error.some THEN PgErr(p.last_error.v)
                              ELSE PgErr("Failed after " \o ToString(p.config.max_retries)
                                            \o " attempts")]

\* Lines 119-122: the call, up to the first request.
PgStart(cfg) ==
    /\ pg.pc = "idle"
    /\ pg' = PgNextAttempt([pg EXCEPT !.config = cfg, !.attempt = 0, !.last_error = None])
    /\ UNCHANGED <<build, b58vars, sendvars, todo, pomo>>

\* Line 160: the request goes out.
PgRequest ==
    /\ pg.pc = "request"
    /\ pg' = [pg EXCEPT !.pc = "await",
                        !.log = Append(@, [ev |-> "request", attempt |-> pg.attempt])]
    /\ UNCHANGED <<build, b58vars, sendvars, todo, pomo>>

\* As PgRespond, an Ok of the wrong count recorded as an error and slept on.
PgRespondCountIsError(r) ==
    /\ pg.pc = "await"
    /\ LET t == try_api_request(r)
           e == IF t.kind = "Ok" THEN PgErr("wrong count") ELSE t
           got == [pg EXCEPT !.log = Append(@, [ev |-> "response", attempt |-> pg.attempt,
                                                 outcome |-> t])]
       IN  IF t.kind = "Ok" /\ is_valid_password_count(t.passwords, pg.config.count)
           THEN pg' = [got EXCEPT !.pc = "done", !.result = t]
           ELSE LET failed == [got EXCEPT !.last_error = Some(e.msg)]
                IN  IF should_retry(pg.attempt, pg.config.max_retries)
                    THEN LET d == calculate_retry_delay(build, pg.attempt)
                         IN  IF d.panic
                             THEN pg' = [failed EXCEPT !.pc = "done", !.result = Panicked]
                             ELSE pg' = [failed EXCEPT !.pc = "sleep", !.delay = d.val,
                                            !.log = Append(@, [ev |-> "sleep",
                                                               attempt |-> pg.attempt,
                                                               delay |-> d.val])]
                    ELSE pg' = PgNextAttempt(failed)
    /\ UNCHANGED <<build, b58vars, sendvars, todo, pomo>>

\* Lines 123-141: the result of try_api_request and the rest of the pass, up
\* to the sleep of wait_before_retry if there is one.
PgRespond(r) ==
    /\ pg.pc = "await"
    /\ LET t == try_api_request(r)
           got == [pg EXCEPT !.log = Append(@, [ev |-> "response", attempt |-> pg.attempt,
                                                 outcome |-> t])]
       IN  IF t.kind = "Ok"
           THEN IF is_valid_password_count(t.passwords, pg.config.count)
                THEN pg' = [got EXCEPT !.pc = "done", !.result = t]
                ELSE pg' = PgNextAttempt(got)
           ELSE LET failed == [got EXCEPT !.last_error = Some(t.msg)]
                IN  IF should_retry(pg.attempt, pg.config.max_retries)
                    THEN LET d == calculate_retry_delay(build, pg.attempt)
                         IN  IF d.panic
                             THEN pg' = [failed EXCEPT !.pc = "done", !.result = Panicked]
                             ELSE pg' = [failed EXCEPT !.pc = "sleep", !.delay = d.val,
                                            !.log = Append(@, [ev |-> "sleep",
                                                               attempt |-> pg.attempt,
                                                               delay |-> d.val])]
                    ELSE pg' = PgNextAttempt(failed)
    /\ UNCHANGED <<build, b58vars, sendvars, todo, pomo>>

\* Line 200: the sleep is over; the pass ends.
PgWake ==
    /\ pg.pc = "sleep"
    /\ pg' = PgNextAttempt(pg)
    /\ UNCHANGED <<build, b58vars, sendvars, todo, pomo>>

(***************************************************************************)
(* todo-cli (src/todo-cli/src/main.rs): the todo table and the TodoApp     *)
(* methods that run one statement on it.  A row is its id, name and        *)
(* is_done; ids come from AUTOINCREMENT, one past the largest id the       *)
(* table ever held.  A statement the database refuses returns              *)
(* TodoError::Database through `?` and changes nothing.                    *)
(***************************************************************************)
MaxTasks == 3

TaskNames == {"", "  ", "a", " b ", "a\n"}
TaskIds == 0..(MaxTasks + 1)

\* str::trim on the task names of the model.
trim_name(task_name) ==
    CASE task_name = "  " -> ""
      [] task_name = " b " -> "b"
      [] task_name = "a\n" -> "a"
      [] OTHER -> task_name

Row(id, name, is_done) == [id |-> id, name |-> name, is_done |-> is_done]

TodoOk == [kind |-> "Ok"]
TodoErr(variant, detail) == [kind |-> "Err", variant |-> variant, detail |-> detail]
DatabaseError == TodoErr("Database", "sqlx")

NoCommand == [op |-> "none", name |-> "", id |-> 0, before |-> {}, result |-> TodoOk]
Ran(op, name, id, before, res) ==
    [op |-> op, name |-> name, id |-> id, before |-> before, result |-> res]

\* The table after initialize_schema on a fresh database, no command run yet.
TodoIdle == [rows |-> {}, seq |-> 0, last |-> NoCommand]

\* As add_task, the name checked and bound as given.
add_task_untrimmed(t, task_name, db_ok) ==
    IF task_name = ""
    THEN [t EXCEPT !.last = Ran("add", task_name, 0, t.rows,
                                TodoErr("InvalidInput", "Task name cannot be empty"))]
    ELSE IF ~db_ok
    THEN [t EXCEPT !.last = Ran("add", task_name, 0, t.rows, DatabaseError)]
    ELSE [t EXCEPT !.rows = @ \cup {Row(t.seq + 1, task_name, 0)},
                   !.seq = @ + 1,
                   !.last = Ran("add", task_name, 0, t.rows, TodoOk)]

\* add_task: INSERT INTO todo (name) VALUES (trimmed name).
add_task(t, task_name, db_ok) ==
    IF trim_name(task_name) = ""
    THEN [t EXCEPT !.last = Ran("add", task_name, 0, t.rows,
                                TodoErr("InvalidInput", "Task name cannot be empty"))]
    ELSE IF ~db_ok
    THEN [t EXCEPT !.last = Ran("add", task_name, 0, t.rows, DatabaseError)]
    ELSE [t EXCEPT !.rows = @ \cup {Row(t.seq + 1, trim_name(task_name), 0)},
                   !.seq = @ + 1,
                   !.last = Ran("add", task_name, 0, t.rows, TodoOk)]

\* list_tasks: SELECT, the table as it is.
list_tasks(t, db_ok) ==
    [t EXCEPT !.last = Ran("list", "", 0, t.rows, IF db_ok THEN TodoOk ELSE DatabaseError)]

\* As remove_task, rows_affected not looked at.
remove_task_unchecked(t, task_id, db_ok) ==
    IF ~db_ok THEN [t EXCEPT !.last = Ran("remove", "", task_id, t.rows, DatabaseError)]
    ELSE [t EXCEPT !.rows = {r \in t.rows : r.id # task_id},
                   !.last = Ran("remove", "", task_id, t.rows, TodoOk)]

\* remove_task: DELETE FROM todo WHERE id = ?, then rows_affected.
remove_task(t, task_id, db_ok) ==
    IF ~db_ok THEN [t EXCEPT !.last = Ran("remove", "", task_id, t.rows, DatabaseError)]
    ELSE LET hit == {r \in t.rows : r.id = task_id}
         IN  [t EXCEPT !.rows = @ \ hit,
                       !.last = Ran("remove", "", task_id, t.rows,
                                    IF Cardinality(hit) = 0
                                    THEN TodoErr("TaskNotFound", task_id) ELSE TodoOk)]

\* complete_task: UPDATE todo SET is_done = 1 WHERE id = ?, then rows_affected.
complete_task(t, task_id, db_ok) ==
    IF ~db_ok THEN [t EXCEPT !.last = Ran("complete", "", task_id, t.rows, DatabaseError)]
    ELSE LET hit == {r \in t.rows : r.id = task_id}
         IN  [t EXCEPT !.rows = (@ \ hit) \cup {[r EXCEPT !.is_done = 1] : r \in hit},
                       !.last = Ran("complete", "", task_id, t.rows,
                                    IF Cardinality(hit) = 0
                                    THEN TodoErr("TaskNotFound", task_id) ELSE TodoOk)]

\* reset_all_tasks: DELETE FROM todo; the AUTOINCREMENT sequence stays.
reset_all_tasks(t, db_ok) ==
    IF ~db_ok THEN [t EXCEPT !.last = Ran("reset", "", 0, t.rows, DatabaseError)]
    ELSE [t EXCEPT !.rows = {}, !.last = Ran("reset", "", 0, t.rows, TodoOk)]

TodoAdd(task_name, db_ok) ==
    /\ todo.seq < MaxTasks
    /\ todo' = add_task(todo, task_name, db_ok)
    /\ UNCHANGED <<build, b58vars, sendvars, pg, pomo>>

TodoList(db_ok) ==
    /\ todo' = list_tasks(todo, db_ok)
    /\ UNCHANGED <<build, b58vars, sendvars, pg, pomo>>

TodoRemove(task_id, db_ok) ==
    /\ todo' = remove_task(todo, task_id, db_ok)
    /\ UNCHANGED <<build, b58vars, sendvars, pg, pomo>>

TodoComplete(task_id, db_ok) ==
    /\ todo' = complete_task(todo, task_id, db_ok)
    /\ UNCHANGED <<build, b58vars, sendvars, pg, pomo>>

TodoReset(db_ok) ==
    /\ todo' = reset_all_tasks(todo, db_ok)
    /\ UNCHANGED <<build, b58vars, sendvars, pg, pomo>>

(***************************************************************************)
(* progressive-pomodoro (src/progressive-pomodoro/src/main.rs): main, its  *)
(* countdown calls and the Ctrl-C handler that runs on a thread of its     *)
(* own.  The main thread is cut at every load of the running flag and at   *)
(* read_line, the points between which the handler's store can fall.       *)
(***************************************************************************)
MaxSessions == 5
SECONDS_PER_MINUTE == 60
LONG_BREAK_EVERY == 4
DEFAULT_SHORT_BREAK == 5
DEFAULT_LONG_BREAK == 20
DEFAULT_SESSIONS == <<10, 15, 20, 25>>

\* A record of a session CSV: the session number and its minutes; -1 stands
\* for a field that does not parse as a number.
CsvRow(i, len) == [i |-> i, len |-> len]
NoFile == [exists |-> FALSE, rows |-> <<>>]
CsvFile(rows) == [exists |-> TRUE, rows |-> rows]

PomodoroConfig(sessions, short_break, long_break, export_csv, db_csv) ==
    [sessions |-> sessions, short_break |-> short_break, long_break |-> long_break,
     export_csv |-> export_csv, db_csv |-> db_csv]

\* The command lines of the model, each with the db file it finds.
PomoRuns ==
    { <<PomodoroConfig(None, DEFAULT_SHORT_BREAK, DEFAULT_LONG_BREAK, FALSE, FALSE), NoFile>>,
      <<PomodoroConfig(Some(<<1>>), 1, 2, TRUE, FALSE), NoFile>>,
      <<PomodoroConfig(Some(<<2, 1>>), 1, 1, FALSE, TRUE), NoFile>>,
      <<PomodoroConfig(Some(<<1>>), 1, 2, TRUE, TRUE), CsvFile(<<CsvRow(1, 1)>>)>>,
      <<PomodoroConfig(Some(<<1, 1, 1, 2>>), 1, 1, FALSE, TRUE),
        CsvFile(<<CsvRow(1, 1), CsvRow(2, 1), CsvRow(-1, 1), CsvRow(3, 1)>>)>>,
      <<PomodoroConfig(Some(<<1, 0>>), 1, 1, FALSE, FALSE), NoFile>>,
      <<PomodoroConfig(Some(<<1>>), 0, 1, FALSE, FALSE), NoFile>>,
      <<PomodoroConfig(Some(<<1>>), 1, 0, FALSE, TRUE), CsvFile(<<>>)>> }

Line(t, label, n, len) == [t |-> t, label |-> label, n |-> n, len |-> len]

NotStopped == [stopped |-> FALSE, at |-> 0, pending |-> FALSE, reads |-> 0]

PomoIdle ==
    [pc |-> "idle", cfg |-> PomodoroConfig(None, 0, 0, FALSE, FALSE),
     session_lengths |-> <<>>, running |-> TRUE,
     session_count |-> 0, completed_sessions |-> <<>>,
     db |-> NoFile, export |-> NoFile,
     length |-> 0, cd |-> "", seconds |-> 0, ret |-> FALSE,
     out |-> <<>>, exit |-> None, stop |-> NotStopped]

\* Lines 100-115: the records of the db file after the header record that
\* csv::Reader takes the first one for, those with two numbers.
RECURSIVE ParsedRows(_)
ParsedRows(rows) ==
    IF rows = <<>> THEN <<>>
    ELSE IF rows[1].i >= 0 /\ rows[1].len >= 0
    THEN << <<rows[1].i, rows[1].len>> >> \o ParsedRows(Tail(rows))
    ELSE ParsedRows(Tail(rows))

LoadSessions(file) ==
    IF file.exists /\ file.rows # <<>> THEN ParsedRows(Tail(file.rows)) ELSE <<>>

RECURSIVE SummaryLines(_)
SummaryLines(sessions) ==
    IF sessions = <<>> THEN <<>>
    ELSE <<Line("Session row", "", sessions[1][1], sessions[1][2])>>
             \o SummaryLines(Tail(sessions))

\* Lines 174-185: the summary and the export, then main returns.
PomoFinish(p) ==
    [p EXCEPT !.pc = "exit", !.exit = Some(EXIT_SUCCESS),
              !.out = @ \o <<Line("Pomodoro Summary:", "", 0, 0)>>
                        \o SummaryLines(p.completed_sessions)
                        \o (IF p.cfg.export_csv
                            THEN <<Line("Summary exported to CSV.", "", 0, 0)>> ELSE <<>>),
              !.export = IF p.cfg.export_csv
                         THEN CsvFile([k \in 1..Len(p.completed_sessions) |->
                                         CsvRow(p.completed_sessions[k][1],
                                                p.completed_sessions[k][2])])
                         ELSE @]

\* Lines 81-130: the arguments, the handler, the sessions of the db file, the
\* writers.
PomoStart(cfg, file) ==
    /\ pomo.pc = "idle"
    /\ LET session_lengths == IF cfg.sessions.some THEN cfg.sessions.v ELSE DEFAULT_SESSIONS
           loaded == IF cfg.db_csv THEN LoadSessions(file) ELSE <<>>
       IN  IF \/ \E k \in 1..Len(session_lengths) : session_lengths[k] = 0
              \/ cfg.short_break = 0 \/ cfg.long_break = 0
           THEN pomo' = [pomo EXCEPT !.pc = "exit", !.cfg = cfg, !.exit = Some(EXIT_FAILURE)]
           ELSE pomo' = [pomo EXCEPT
                    !.pc = "session", !.cfg = cfg, !.session_lengths = session_lengths,
                    !.running = TRUE,
                    !.completed_sessions = loaded,
                    !.session_count = IF loaded = <<>> THEN 0 ELSE loaded[Len(loaded)][1],
                    !.db = IF cfg.db_csv THEN CsvFile(file.rows) ELSE NoFile,
                    !.export = IF cfg.export_csv THEN CsvFile(<<>>) ELSE NoFile]
    /\ UNCHANGED <<build, b58vars, sendvars, pg, todo>>

\* Lines 133-144 and 61: the top of the loop, up to the first test of the
\* work countdown.
PomoBegin ==
    /\ pomo.pc = "session"
    /\ LET length == IF pomo.session_count < Len(pomo.session_lengths)
                     THEN pomo.session_lengths[pomo.session_count + 1]
                     ELSE pomo.session_lengths[Len(pomo.session_lengths)]
       IN  pomo' = [pomo EXCEPT
                !.pc = "tick", !.length = length, !.cd = "Work",
                !.seconds = length * SECONDS_PER_MINUTE,
                !.out = Append(@, Line("Session", "", pomo.session_count + 1, length))]
    /\ UNCHANGED <<build, b58vars, sendvars, pg, todo>>

\* Lines 62-69: one test of `seconds > 0 && running.load()` and, when it
\* holds, the second slept.
PomoTick ==
    /\ pomo.pc = "tick"
    /\ pomo' = IF pomo.seconds > 0 /\ pomo.running
               THEN [pomo EXCEPT !.seconds = @ - 1]
               ELSE [pomo EXCEPT !.pc = "read"]
    /\ UNCHANGED <<build, b58vars, sendvars, pg, todo>>

\* As PomoRead, the countdown taken as done when no second is left.
PomoReadSeconds ==
    /\ pomo.pc = "read"
    /\ LET done == pomo.seconds = 0
       IN  pomo' = [pomo EXCEPT
                !.pc = "after", !.ret = done,
                !.stop.reads = IF pomo.stop.stopped THEN @ + 1 ELSE @,
                !.out = Append(@, IF done THEN Line("done!", pomo.cd, 0, 0)
                                  ELSE Line("Interrupted!", "", 0, 0))]
    /\ UNCHANGED <<build, b58vars, sendvars, pg, todo>>

\* Lines 70-77: the load that decides what countdown returns.
PomoRead ==
    /\ pomo.pc = "read"
    /\ pomo' = [pomo EXCEPT
            !.pc = "after", !.ret = pomo.running,
            !.stop.reads = IF pomo.stop.stopped THEN @ + 1 ELSE @,
            !.out = Append(@, IF pomo.running THEN Line("done!", pomo.cd, 0, 0)
                              ELSE Line("Interrupted!", "", 0, 0))]
    /\ UNCHANGED <<build, b58vars, sendvars, pg, todo>>

\* Lines 145-168: what main does with the value countdown returned, up to the
\* first test of the next countdown or to read_line.  The result of the write
\* to the db file is dropped (`let _ =`); the record is taken as written.
PomoAfter ==
    /\ pomo.pc = "after"
    /\ IF ~pomo.ret THEN pomo' = PomoFinish(pomo)
       ELSE IF pomo.cd = "Work"
       THEN LET n == pomo.session_count + 1
                long == n % LONG_BREAK_EVERY = 0
                minutes == IF long THEN pomo.cfg.long_break ELSE pomo.cfg.short_break
            IN  pomo' = [pomo EXCEPT
                    !.completed_sessions = Append(@, <<n, pomo.length>>),
                    !.db = IF pomo.cfg.db_csv
                           THEN CsvFile(Append(@.rows, CsvRow(n, pomo.length))) ELSE @,
                    !.session_count = n,
                    !.pc = "tick",
                    !.cd = IF long THEN "Long Break" ELSE "Short Break",
                    !.seconds = minutes * SECONDS_PER_MINUTE,
                    !.out = Append(@, Line(IF long THEN "Long break" ELSE "Short break",
                                           "", n, minutes))]
       ELSE pomo' = [pomo EXCEPT !.pc = "enter",
                                 !.out = Append(@, Line("Press Enter", "", 0, 0))]
    /\ UNCHANGED <<build, b58vars, sendvars, pg, todo>>

\* Lines 169-173: read_line returns.
PomoEnter(ok) ==
    /\ pomo.pc = "enter"
    /\ IF ok
       THEN /\ pomo.session_count < MaxSessions
            /\ pomo' = [pomo EXCEPT !.pc = "session"]
       ELSE pomo' = PomoFinish(pomo)
    /\ UNCHANGED <<build, b58vars, sendvars, pg, todo>>

\* Lines 90-92: the handler stores false.  stop keeps what was recorded when
\* it did: the number of sessions, and whether a work countdown had returned
\* true to a main that had not pushed the session yet.
PomoCtrlC ==
    /\ pomo.pc \notin {"idle", "exit"}
    /\ pomo.running
    /\ pomo' = [pomo EXCEPT
            !.running = FALSE,
            !.stop = [stopped |-> TRUE, at |-> Len(pomo.completed_sessions),
                      pending |-> pomo.pc = "after" /\ pomo.cd = "Work" /\ pomo.ret,
                      reads |-> 0]]
    /\ UNCHANGED <<build, b58vars, sendvars, pg, todo>>

InitTools == pg = PgIdle /\ todo = TodoIdle /\ pomo = PomoIdle

(***************************************************************************)
(* base58_encode as a call on its own.                                     *)
(***************************************************************************)
NotRun == [run |-> FALSE, panic |-> FALSE, s |-> <<>>]

InitSend ==
    /\ pc = [c \in Calls |-> "idle"]
    /\ args = [c \in Calls |-> NoArgs]
    /\ loc = [c \in Calls |-> NoLoc]
    /\ result = [c \in Calls |-> NoResult]
    /\ posts = [c \in Calls |-> <<>>]
    /\ seals = [c \in Calls |-> <<>>]
    /\ proc = [c \in Calls |-> Running]

InitB58 ==
    /\ build \in Builds
    /\ b58_in \in B58Inputs
    /\ b58_out = NotRun
    /\ InitSend
    /\ InitTools

Encode ==
    /\ ~b58_out.run
    /\ b58_out' = [run |-> TRUE] @@ base58_encode(build, b58_in)
    /\ UNCHANGED <<build, b58_in, sendvars, toolvars>>

NextB58 == Encode

SpecB58 == InitB58 /\ [][NextB58]_vars

(***************************************************************************)
(* privatebin_send, one invocation c.  The function is cut at its random   *)
(* draws and at the network round trip, the points where another           *)
(* invocation can run in between.                                          *)
(***************************************************************************)
\* As MainEnd, with the result of privatebin_send taken by unwrap_or_default:
\* an Err prints links made of empty strings and main returns Ok(()).
MainEndUnwrapOrDefault(a, r) ==
    IF r.kind = "Panic" THEN [exit |-> Some(EXIT_PANIC), stdout |-> <<>>]
    ELSE LET t == IF r.kind = "Ok" THEN r
                  ELSE [kind |-> "Ok", id |-> "", url |-> "", deletetoken |-> "", secret |-> <<>>]
         IN  [exit |-> Some(EXIT_SUCCESS),
              stdout |-> << PasteLine(a.formatter, UrlText(a.url), t.url, t.secret),
                            DeleteLine(UrlText(a.url), t.id, t.deletetoken) >>]

\* main from the return of privatebin_send on (lines 610-632): `?` hands an Err to
\* the runtime, which prints it to stderr and exits with 1; a panic unwinds out of
\* main and exits with 101; Ok prints the two links and main returns Ok(()).
MainEnd(a, r) ==
    IF r.kind = "Ok"
    THEN [exit |-> Some(EXIT_SUCCESS),
          stdout |-> << PasteLine(a.formatter, UrlText(a.url), r.url, r.secret),
                        DeleteLine(UrlText(a.url), r.id, r.deletetoken) >>]
    ELSE IF r.kind = "Err" THEN [exit |-> Some(EXIT_FAILURE), stdout |-> <<>>]
    ELSE [exit |-> Some(EXIT_PANIC), stdout |-> <<>>]

\* privatebin_send called with the arguments a returns r, and main ends on it.
Finish(c, a, r) ==
    /\ pc' = [pc EXCEPT ![c] = "done"]
    /\ result' = [result EXCEPT ![c] = r]
    /\ proc' = [proc EXCEPT ![c] = MainEnd(a, r)]

\* main up to the call of privatebin_send (lines 583-608): both formatter flags,
\* an attachment or an input that cannot be read, no input, a failed detection.
MainRejects(c, e) ==
    /\ pc[c] = "idle"
    /\ Finish(c, args[c], e)
    /\ UNCHANGED <<build, b58vars, toolvars, args, loc, posts, seals>>

\* As Invoke, without the content check of lines 314-319.
InvokeUnchecked(c, a) ==
    /\ pc[c] = "idle"
    /\ args' = [args EXCEPT ![c] = a]
    /\ pc' = [pc EXCEPT ![c] = "passphrase"]
    /\ UNCHANGED <<build, b58vars, toolvars, loc, result, posts, seals, proc>>

\* Lines 302-319: the call and the content check.
Invoke(c, a) ==
    /\ pc[c] = "idle"
    /\ args' = [args EXCEPT ![c] = a]
    /\ IF ~a.plaintext.some /\ ~a.attachment.some
       THEN Finish(c, a, Err("InvalidOptions", "No content to paste", None, None))
       ELSE pc' = [pc EXCEPT ![c] = "passphrase"] /\ UNCHANGED <<result, proc>>
    /\ UNCHANGED <<build, b58vars, toolvars, loc, posts, seals>>

\* Lines 321-323: the passphrase.
DrawPassphrase(c, bytes) ==
    /\ pc[c] = "passphrase"
    /\ LET d == DrawnPassphrase(c, bytes, seals)
       IN  loc' = [loc EXCEPT ![c].passphrase = d.bytes, ![c].passTag = d.tag]
    /\ pc' = [pc EXCEPT ![c] = "kdf"]
    /\ UNCHANGED <<build, b58vars, toolvars, args, result, posts, seals, proc>>

\* Lines 258-266 with generate_kdf_key (172-185): the KDF input, the salt, the key.
DeriveKey(c, bytes) ==
    /\ pc[c] = "kdf"
    /\ LET d == DrawnSalt(c, bytes, seals)
           k == generate_kdf_key(final_passphrase(loc[c].passphrase, args[c].password), d.bytes)
       IN  loc' = [loc EXCEPT ![c].kdf_key = k.key, ![c].kdf_salt = k.salt, ![c].saltTag = d.tag]
    /\ pc' = [pc EXCEPT ![c] = "iv"]
    /\ UNCHANGED <<build, b58vars, toolvars, args, result, posts, seals, proc>>

\* Lines 268-270: the IV.
DrawIv(c, bytes) ==
    /\ pc[c] = "iv"
    /\ LET d == DrawnIv(c, bytes, seals)
       IN  loc' = [loc EXCEPT ![c].cipher_iv = d.bytes, ![c].ivTag = d.tag]
    /\ pc' = [pc EXCEPT ![c] = "seal"]
    /\ UNCHANGED <<build, b58vars, toolvars, args, result, posts, seals, proc>>

\* Lines 272-298: the blob, the associated data, the seal, the adata parsed back.
Seal(c) ==
    /\ pc[c] = "seal"
    /\ LET e == privatebin_encrypt(args[c], loc[c].kdf_key, loc[c].kdf_salt, loc[c].cipher_iv)
       IN  /\ loc' = [loc EXCEPT ![c].adata = e.adata, ![c].ct = e.ct]
           /\ seals' = IF e.sealed
                       THEN [seals EXCEPT ![c] =
                                Append(@, [key |-> e.ct.key, nonce |-> e.ct.nonce, aad |-> e.ct.aad,
                                           used |-> [passphrase |-> loc[c].passTag,
                                                     salt |-> loc[c].saltTag,
                                                     iv |-> loc[c].ivTag]])]
                       ELSE seals
           /\ IF e.ok
              THEN pc' = [pc EXCEPT ![c] = "post"] /\ UNCHANGED <<result, proc>>
              ELSE Finish(c, args[c], e.err)
    /\ UNCHANGED <<build, b58vars, toolvars, args, posts>>

\* Lines 336-363: the payload, the URL check, the client, the request.
Post(c, client_ok) ==
    /\ pc[c] = "post"
    /\ LET payload == BuildPayload(loc[c].adata, loc[c].ct, args[c].expire)
           url == args[c].url
       IN  IF ~starts_with(url, "http://") /\ ~starts_with(url, "https://")
           THEN /\ Finish(c, args[c], Err("InvalidOptions", "Invalid URL: " \o UrlText(url), None, None))
                /\ UNCHANGED posts
           ELSE IF ~client_ok
           THEN /\ Finish(c, args[c], Err("ApiError", "builder error", None, None))
                /\ UNCHANGED posts
           ELSE /\ posts' = [posts EXCEPT ![c] = Append(@, BuildRequest(url, payload))]
                /\ pc' = [pc EXCEPT ![c] = "await"]
                /\ UNCHANGED <<result, proc>>
    /\ UNCHANGED <<build, b58vars, toolvars, args, loc, seals>>

\* As Respond, with the round trip wrapped in a retry loop that sends the request
\* again after any ApiError, up to three attempts.
RespondRetrying(c, r) ==
    /\ pc[c] = "await"
    /\ loc' = [loc EXCEPT ![c].response = r]
    /\ LET out == HandleResponse(build, loc[c].passphrase, r)
       IN  IF out.kind = "Err" /\ out.variant = "ApiError" /\ Len(posts[c]) < 3
           THEN /\ posts' = [posts EXCEPT ![c] = Append(@, posts[c][1])]
                /\ UNCHANGED <<pc, result, proc>>
           ELSE Finish(c, args[c], out) /\ UNCHANGED posts
    /\ UNCHANGED <<build, b58vars, toolvars, args, seals>>

\* As Respond, with a retry loop around encryption and round trip: after a
\* transport failure a new IV is drawn and the paste is sealed and sent again.
RespondResealing(c, r) ==
    /\ pc[c] = "await"
    /\ loc' = [loc EXCEPT ![c].response = r]
    /\ IF r.net = "error" /\ Len(posts[c]) < 3
       THEN pc' = [pc EXCEPT ![c] = "iv"] /\ UNCHANGED <<result, proc>>
       ELSE Finish(c, args[c], HandleResponse(build, loc[c].passphrase, r))
    /\ UNCHANGED <<build, b58vars, toolvars, args, posts, seals>>

\* Lines 363-436: what send() returned, and everything after it.
Respond(c, r) ==
    /\ pc[c] = "await"
    /\ loc' = [loc EXCEPT ![c].response = r]
    /\ Finish(c, args[c], HandleResponse(build, loc[c].passphrase, r))
    /\ UNCHANGED <<build, b58vars, toolvars, args, posts, seals>>

\* One invocation, as main makes it, over the wide inputs.
Init ==
    /\ build \in Builds
    /\ b58_in = <<>>
    /\ b58_out = NotRun
    /\ InitSend
    /\ InitTools

Next ==
    \/ \E e \in MainErrors : MainRejects(1, e)
    \/ \E a \in ArgSamples : Invoke(1, a)
    \/ \E b \in PassphraseSamples : DrawPassphrase(1, b)
    \/ \E b \in SaltSamples : DeriveKey(1, b)
    \/ \E b \in IvSamples : DrawIv(1, b)
    \/ Seal(1)
    \/ \E ok \in BOOLEAN : Post(1, ok)
    \/ \E r \in ResponseSamples : Respond(1, r)

Spec == Init /\ [][Next]_vars

\* Several invocations interleaved, over the narrow inputs.
NextConc ==
    \E c \in Calls :
        \/ \E a \in ConcArgs : Invoke(c, a)
        \/ \E b \in ConcPassphrases : DrawPassphrase(c, b)
        \/ \E b \in ConcSalts : DeriveKey(c, b)
        \/ \E b \in ConcIvs : DrawIv(c, b)
        \/ Seal(c)
        \/ Post(c, TRUE)
        \/ \E r \in ConcResponses : Respond(c, r)

SpecConc == Init /\ [][NextConc]_vars

\* The seal steps of privatebin_encrypt (lines 283-292) taken as a function of
\* the key and the nonce handed to them: UnboundKey::new, try_assume_unique_for_key
\* and seal_in_place_append_tag over keys and nonces of any length.
\* privatebin_encrypt itself hands them KDF_KEYSIZE / 8 and 12 bytes.
SealKeyLens == {0, 16, 24, 31, 32, 33, 64}
SealNonceLens == 0..16

InitSeal ==
    /\ build \in Builds
    /\ b58_in = <<>>
    /\ b58_out = NotRun
    /\ InitTools
    /\ \E kl \in SealKeyLens, nl \in SealNonceLens :
          LET passphrase == Pattern(PASSPHRASE_LEN, 16, 7, 9)
              salt == Rep(KDF_SALT_LEN, 0)
              at_seal == [NoLoc EXCEPT !.passphrase = passphrase, !.passTag = Draw(1, 1, <<>>).tag,
                                       !.kdf_key = pbkdf2_derive(salt, passphrase, kl),
                                       !.kdf_salt = salt, !.saltTag = Draw(1, 2, <<>>).tag,
                                       !.cipher_iv = Rep(nl, 255), !.ivTag = Draw(1, 3, <<>>).tag]
          IN  /\ pc = [c \in Calls |-> IF c = 1 THEN "seal" ELSE "idle"]
              /\ args = [c \in Calls |-> IF c = 1 THEN BaseArgs ELSE NoArgs]
              /\ loc = [c \in Calls |-> IF c = 1 THEN at_seal ELSE NoLoc]
    /\ result = [c \in Calls |-> NoResult]
    /\ posts = [c \in Calls |-> <<>>]
    /\ seals = [c \in Calls |-> <<>>]
    /\ proc = [c \in Calls |-> Running]

NextSeal ==
    \/ Seal(1)
    \/ Post(1, TRUE)
    \/ \E r \in ConcResponses : Respond(1, r)

SpecSeal == InitSeal /\ [][NextSeal]_vars

\* generate_via_api over every configuration and response of the samples.
NextPg ==
    \/ \E cfg \in PgConfigs : PgStart(cfg)
    \/ PgRequest
    \/ \E r \in PgResponses : PgRespond(r)
    \/ PgWake

SpecPg == Init /\ [][NextPg]_vars

\* generate_via_api with long retry limits against a server out of reach.
NextPgLong ==
    \/ \E cfg \in LongConfigs : PgStart(cfg)
    \/ PgRequest
    \/ PgRespond(PgTransportFailure)
    \/ PgWake

SpecPgLong == Init /\ [][NextPgLong]_vars

\* todo-cli: any sequence of commands on one database.
NextTodo ==
    \/ \E n \in TaskNames, ok \in BOOLEAN : TodoAdd(n, ok)
    \/ \E ok \in BOOLEAN : TodoList(ok)
    \/ \E id \in TaskIds, ok \in BOOLEAN : TodoRemove(id, ok)
    \/ \E id \in TaskIds, ok \in BOOLEAN : TodoComplete(id, ok)
    \/ \E ok \in BOOLEAN : TodoReset(ok)

SpecTodo == Init /\ [][NextTodo]_vars

\* progressive-pomodoro: one run, Ctrl-C at any moment of it.
NextPomo ==
    \/ \E run \in PomoRuns : PomoStart(run[1], run[2])
    \/ PomoBegin
    \/ PomoTick
    \/ PomoRead
    \/ PomoAfter
    \/ \E ok \in BOOLEAN : PomoEnter(ok)
    \/ PomoCtrlC

SpecPomo == Init /\ [][NextPomo]_vars

(***************************************************************************)
(* What a holder of the link and the server see.                           *)
(***************************************************************************)
RECURSIVE Concat(_)
Concat(chars) == IF chars = <<>> THEN "" ELSE chars[1] \o Concat(Tail(chars))

IndexOf(t, tok) == CHOOSE i \in 1..Len(t) : t[i] = tok
Has(t, tok) == \E i \in 1..Len(t) : t[i] = tok

\* The adata member and the ct member of a request body, as the server stores them.
SentAdata(body) == SubSeq(body, IndexOf(body, K("adata")) + 1, IndexOf(body, K("ct")) - 2)
SentCt(body) == body[IndexOf(body, K("ct")) + 1].s

Base64Decode(text, candidates) == CHOOSE b \in candidates : Base64(b) = text

\* A reference decryptor: the key from the base58 secret of the link (and the
\* password), the salt, IV and compression from the stored adata, the stored adata
\* bytes as associated data.  None when the secret does not decode, authentication
\* fails or the blob does not unpack.
RefDecrypt(secret, password, body) ==
    LET aad == SentAdata(body)
        adata == ParsePasteAdata(aad)
        ct == SentCt(body)
        passphrase == RefBase58Decode(secret)
        salt == Base64Decode(adata.v.cipher[2], SaltSamples)
        iv == Base64Decode(adata.v.cipher[1], IvSamples)
        key == pbkdf2_derive(salt,
                             passphrase \o (IF password.some THEN as_bytes(password.v) ELSE <<>>),
                             AES_256_KEY_LEN)
    IN  IF ~adata.ok \/ ct.key # key \/ ct.nonce # iv \/ ct.aad # aad THEN None
        ELSE IF ct.pt.zlib # (adata.v.cipher[8] = "zlib") THEN None
        ELSE IF ~Has(ct.pt.json, K("paste")) THEN None
        ELSE LET tok == ct.pt.json[IndexOf(ct.pt.json, K("paste")) + 1]
             IN  IF tok.k = "str" THEN Some(tok.s) ELSE None

Posted(c) == Len(posts[c]) > 0

(***************************************************************************)
(* C1 - C10                                                                *)
(***************************************************************************)

\* C1: after a successful privatebin_send, base58-decoding the returned secret
\* gives back the 32-byte passphrase that went into the KDF, and a reference
\* decrypt with that secret, the password and the ct/adata that were sent
\* recovers the original text.
C1_SecretOpensPaste ==
    \A c \in Calls :
        result[c].kind = "Ok" =>
            /\ RefBase58Decode(result[c].secret) = loc[c].passphrase
            /\ RefDecrypt(result[c].secret, args[c].password, posts[c][1].body) = args[c].plaintext

\* C2: base58_encode(v) is the reference Bitcoin-style encoding of v for every
\* byte string v: the bytes after the zero run read as one big-endian integer of
\* their full width, no truncation, wrap-around or overflow.
C2_EncodeIsReferenceBase58 ==
    b58_out.run => (~b58_out.panic /\ b58_out.s = RefBase58Encode(b58_in))

\* C3: base58 decode after base58_encode is the identity on every byte string,
\* and k leading zero bytes give exactly k leading '1' characters.
C3_DecodeAfterEncodeIsIdentity ==
    b58_out.run =>
        /\ ~b58_out.panic
        /\ RefBase58Decode(b58_out.s) = b58_in
        /\ LeadingCount(b58_out.s, alphabet[1]) = LeadingCount(b58_in, 0)

\* The clear texts of a request body: its string and number tokens.
ClearTexts(body) == {body[i].s : i \in {j \in 1..Len(body) : body[j].k \in {"str", "num"}}}
KeysOf(body) == SelectSeq(body, LAMBDA tok : tok.k = "key")
Redact(req) == [req EXCEPT !.body = [i \in 1..Len(req.body) |->
                                        IF req.body[i].k = "b64" THEN B64Tok(NoSealed)
                                        ELSE req.body[i]]]

SecretTexts(c) ==
    { Base64(loc[c].passphrase), Concat(RefBase58Encode(loc[c].passphrase)),
      Concat(base58_encode("wrapping", loc[c].passphrase).s),
      Base64(final_passphrase(loc[c].passphrase, args[c].password)) }
        \cup (IF args[c].password.some /\ args[c].password.v # "" THEN {args[c].password.v} ELSE {})

SameButSecrets(c, d) ==
    /\ [args[c] EXCEPT !.password = None] = [args[d] EXCEPT !.password = None]
    /\ loc[c].kdf_salt = loc[d].kdf_salt
    /\ loc[c].cipher_iv = loc[d].cipher_iv

\* The request req of invocation c holds the six members only, none of the secret
\* texts, and goes to the given URL with the request headers.
RequestHidesSecrets(c, req) ==
    /\ KeysOf(req.body) = << K("v"), K("adata"), K("cipher"), K("formatter"),
                             K("opendiscussion"), K("burn"), K("ct"), K("meta"),
                             K("expire") >>
    /\ ClearTexts(req.body) \cap SecretTexts(c) = {}
    /\ req.url = UrlText(args[c].url)
    /\ req.headers = PostHeaders

\* C4: every request holds only v, adata (cipher parameters, formatter,
\* opendiscussion, burn), ct and meta.expire; neither the passphrase, the password
\* nor the base58 secret is in it, and two invocations that differ only in
\* passphrase and password send requests that differ only in ct.  Stated of every
\* step that sends a request; the arguments and draws of the sender are those it
\* had before the step.
C4_ZeroKnowledge ==
    [][\A c \in Calls :
          posts'[c] # posts[c] =>
              /\ Len(posts'[c]) = Len(posts[c]) + 1
              /\ args'[c] = args[c] /\ loc'[c] = loc[c]
              /\ RequestHidesSecrets(c, posts'[c][Len(posts'[c])])
              /\ \A d \in Calls :
                    (Posted(d) /\ SameButSecrets(c, d))
                        => Redact(posts'[c][Len(posts'[c])]) = Redact(posts[d][1])]_vars

C4_Witness ==
    \E c, d \in Calls :
        /\ Posted(c) /\ Posted(d) /\ SameButSecrets(c, d)
        /\ loc[c].passphrase # loc[d].passphrase
        /\ args[c].password # args[d].password
        /\ posts[c][1] # posts[d][1]

UsedBy(c) == {seals[c][k].used[f] : k \in 1..Len(seals[c]), f \in {"passphrase", "salt", "iv"}}

\* C5: every invocation seals exactly once, with a passphrase, a salt and a nonce
\* drawn inside that invocation, and no draw of one invocation is used by another.
C5_FreshDrawsPerInvocation ==
    /\ \A c \in Calls :
          /\ Len(seals[c]) <= 1
          /\ pc[c] \in {"post", "await"} => Len(seals[c]) = 1
          /\ Posted(c) => Len(seals[c]) = 1
          /\ \A k \in 1..Len(seals[c]) :
                LET e == seals[c][k]
                IN  /\ e.used.passphrase.by = c /\ e.used.salt.by = c /\ e.used.iv.by = c
                    /\ Cardinality({e.used.passphrase, e.used.salt, e.used.iv}) = 3
                    /\ e.key.salt = loc[c].kdf_salt /\ e.nonce = loc[c].cipher_iv
    /\ \A c, d \in Calls : c # d => UsedBy(c) \cap UsedBy(d) = {}

C5_Witness ==
    \E c, d \in Calls :
        /\ c # d /\ Len(seals[c]) = 1 /\ Len(seals[d]) = 1
        /\ seals[c][1].nonce = seals[d][1].nonce
        /\ pc[c] = "await" /\ pc[d] = "await"

\* C6: the bytes given to the cipher as associated data are the compact JSON of
\* the adata member of the payload that is POSTed.
C6_AadIsSentAdata ==
    \A c \in Calls :
        /\ pc[c] \in {"post", "await"} => SerPasteAdata(loc[c].adata) = loc[c].ct.aad
        /\ \A k \in 1..Len(posts[c]) :
              /\ SentAdata(posts[c][k].body) = seals[c][1].aad
              /\ SentCt(posts[c][k].body).aad = seals[c][1].aad

C6_Witness ==
    \E c \in Calls :
        /\ Posted(c) /\ args[c].burn /\ ~args[c].opendiscussion
        /\ SentAdata(posts[c][1].body) = seals[c][1].aad

\* The request body of the documented wire format.
WireFormat(iv_b64, salt_b64, comp, formatter, opendiscussion, burn, ct, expire) ==
    << P("{"), K("v"), N(2), P(","), K("adata"),
       P("["), P("["), S(iv_b64), P(","), S(salt_b64), P(","), N(100000), P(","), N(256),
       P(","), N(96), P(","), S("aes"), P(","), S("gcm"), P(","), S(comp), P("]"),
       P(","), S(formatter), P(","), N(opendiscussion), P(","), N(burn), P("]"),
       P(","), K("ct"), ct, P(","), K("meta"), P("{"), K("expire"), S(expire), P("}"), P("}") >>

\* C7: the request body is the documented wire format: adata a 4-element array
\* whose first element is [base64(nonce), base64(salt), 100000, 256, 96, "aes",
\* "gcm", compressionType] with the three sizes as JSON numbers, then formatter,
\* opendiscussion and burn; v is 2 and meta.expire the caller's expire string.
C7_BodyIsWireFormat ==
    \A c \in Calls : \A k \in 1..Len(posts[c]) :
        posts[c][k].body =
            WireFormat(Base64(loc[c].cipher_iv), Base64(loc[c].kdf_salt),
                       IF args[c].compress THEN "zlib" ELSE "none",
                       args[c].formatter, BoolU8(args[c].opendiscussion), BoolU8(args[c].burn),
                       B64Tok(loc[c].ct), args[c].expire)

RequiredHeaders ==
    {<<"X-Requested-With", "JSONHttpRequest">>, <<"Content-Type", "application/json">>}

C9_TransportFailureRetried ==
    \A c \in Calls :
        (pc[c] = "done" /\ loc[c].response.net = "error") =>
            /\ result[c].kind = "Err"
            /\ Len(posts[c]) = DEFAULT_MAX_RETRIES

\* The response is a document that parses and carries a non-zero status.
Rejected(r) ==
    /\ r.net = "http"
    /\ ~trim_is_empty(r.body.raw)
    /\ ParsePasteResponse(r.body).ok
    /\ ParsePasteResponse(r.body).status.some
    /\ ParsePasteResponse(r.body).status.v # 0

MessagesWith(phrase, tail) ==
    {phrase \o tail} \cup {phrase \o tail \o " (Status: " \o ToString(st) \o ")" : st \in HttpSamples}

MentionsServerInternalError(msg) ==
    msg \in MessagesWith("Server internal error",
                         " (500) - The server encountered an error processing your request")

Http500Empty(r) == r.net = "http" /\ r.status = 500 /\ r.body.raw = ""

\* C11: when the server answers HTTP 500 with an empty body, the invocation ends
\* with ApiError whose message mentions "Server internal error", after as many
\* attempts as the retry limit allows (3 by default).
C11_Http500EmptyRetried ==
    \A c \in Calls :
        (pc[c] = "done" /\ Http500Empty(loc[c].response)) =>
            /\ result[c].kind = "Err" /\ result[c].variant = "ApiError"
            /\ MentionsServerInternalError(result[c].msg)
            /\ Len(posts[c]) = DEFAULT_MAX_RETRIES

\* What invocation c has made so far stays as it is.
MadeOnce(c) ==
    /\ loc[c].passTag # NoTag =>
          loc'[c].passphrase = loc[c].passphrase /\ loc'[c].passTag = loc[c].passTag
    /\ loc[c].saltTag # NoTag =>
          /\ loc'[c].kdf_salt = loc[c].kdf_salt /\ loc'[c].saltTag = loc[c].saltTag
          /\ loc'[c].kdf_key = loc[c].kdf_key
    /\ loc[c].ivTag # NoTag =>
          loc'[c].cipher_iv = loc[c].cipher_iv /\ loc'[c].ivTag = loc[c].ivTag
    /\ seals[c] # <<>> =>
          /\ seals'[c] = seals[c]
          /\ loc'[c].adata = loc[c].adata /\ loc'[c].ct = loc[c].ct

\* The requests of invocation c all carry the one sealed payload.
SendsTheSealedPayload(c) ==
    Posted(c) =>
        /\ Len(seals[c]) = 1
        /\ \A k \in 1..Len(posts[c]) :
              /\ posts[c][k] = posts[c][1]
              /\ SentCt(posts[c][k].body) = loc[c].ct
              /\ SentCt(posts[c][k].body).key = seals[c][1].key
              /\ SentCt(posts[c][k].body).nonce = seals[c][1].nonce
              /\ SentAdata(posts[c][k].body) = seals[c][1].aad

\* C12: within one invocation the passphrase, salt, key, nonce, adata and ct are
\* made once, before the first request, never made again, and every request of the
\* invocation carries that one payload.
C12_EncryptOncePerInvocation ==
    [][\A c \in Calls : MadeOnce(c) /\ SendsTheSealedPayload(c)']_vars

C12_Witness ==
    \E c \in Calls :
        /\ pc[c] = "done" /\ loc[c].response.net = "error"
        /\ Len(seals[c]) = 1 /\ Len(posts[c]) = 1
        /\ SentCt(posts[c][1].body).nonce = loc[c].cipher_iv

\* privatebin_send has been called by c, with neither text nor attachment.
CalledWithoutContent(c) ==
    args[c] # NoArgs /\ ~args[c].plaintext.some /\ ~args[c].attachment.some

\* C13: a call with neither text nor attachment has ended with InvalidOptions
\* and has drawn no random bytes, derived no key, sealed nothing, sent nothing.
C13_NoContentRejectedFirst ==
    \A c \in Calls :
        CalledWithoutContent(c) =>
            /\ pc[c] = "done"
            /\ result[c].kind = "Err" /\ result[c].variant = "InvalidOptions"
            /\ loc[c] = NoLoc
            /\ seals[c] = <<>> /\ posts[c] = <<>>

C13_Witness ==
    \E c \in Calls :
        /\ CalledWithoutContent(c)
        /\ ~starts_with(args[c].url, "http://") /\ ~starts_with(args[c].url, "https://")
        /\ result[c] = Err("InvalidOptions", "No content to paste", None, None)

HttpSchemes == {"http://", "https://"}

Called(c) == args[c] # NoArgs

\* C14: a call whose URL begins with neither "http://" nor "https://" ends with
\* InvalidOptions and sends no request (nor fails building a client); a call whose
\* URL begins with one of them never fails the URL check.
C14_UrlSchemeChecked ==
    \A c \in Calls :
        /\ (Called(c) /\ args[c].url.scheme \notin HttpSchemes) =>
              /\ posts[c] = <<>>
              /\ pc[c] \notin {"await"}
              /\ pc[c] = "done" =>
                    /\ result[c].kind = "Err" /\ result[c].variant = "InvalidOptions"
                    /\ result[c].msg \in {"No content to paste",
                                         "Invalid URL: " \o UrlText(args[c].url)}
        /\ (Called(c) /\ args[c].url.scheme \in HttpSchemes /\ pc[c] = "done") =>
              ~(/\ result[c].kind = "Err" /\ result[c].variant = "InvalidOptions"
                /\ result[c].msg # "No content to paste")

C14_Witness ==
    \E c \in Calls :
        /\ args[c].url.scheme = "ftp://" /\ args[c].plaintext.some
        /\ Len(seals[c]) = 1
        /\ result[c] = Err("InvalidOptions", "Invalid URL: ftp://snip.dssr.ch/", None, None)

\* The phrase the message of an empty-body failure is to carry, by HTTP status.
EmptyBodyPhrase(status) ==
    CASE status = 500 -> "Server internal error"
      [] status = 502 -> "Bad gateway"
      [] status = 503 -> "Service unavailable"
      [] OTHER -> "Empty response from server"

PhraseTail(phrase) ==
    CASE phrase = "Server internal error" ->
           " (500) - The server encountered an error processing your request"
      [] phrase = "Bad gateway" ->
           " (502) - The server received an invalid response from upstream"
      [] phrase = "Service unavailable" ->
           " (503) - The server is temporarily unable to handle your request"
      [] OTHER -> ""

EmptyBody(r) == r.net = "http" /\ r.body.raw = ""

\* C15: an empty response body ends the invocation with ApiError carrying the
\* HTTP status, the message chosen by the status alone (500, 502, 503, or the
\* generic one for every other status, 2xx included); never success, never the
\* error of a failed parse.
C15_EmptyBodyByStatus ==
    \A c \in Calls :
        (pc[c] = "done" /\ EmptyBody(loc[c].response)) =>
            LET st == loc[c].response.status
            IN  /\ result[c].kind = "Err" /\ result[c].variant = "ApiError"
                /\ result[c].status = Some(st)
                /\ result[c].msg \in MessagesWith(EmptyBodyPhrase(st), PhraseTail(EmptyBodyPhrase(st)))
                /\ \A other \in {EmptyBodyPhrase(x) : x \in HttpSamples} \ {EmptyBodyPhrase(st)} :
                      result[c].msg \notin MessagesWith(other, PhraseTail(other))
                /\ proc[c].stdout = <<>>

C15_Witness ==
    \E c \in Calls :
        /\ pc[c] = "done"
        /\ loc[c].response = HttpResponse(200, TextBody(""))
        /\ result[c] = Err("ApiError", "Empty response from server (Status: 200)", Some(200), None)

\* The message ends with the raw body, after the head every parse failure has.
ContainsBody(msg, raw) ==
    msg = "Failed to parse response as JSON: invalid document\nResponse body: " \o raw

Unparseable(r) == r.net = "http" /\ ~ParsePasteResponse(r.body).ok

\* C16 as stated: a non-empty body that does not parse as the expected document
\* ends the invocation with InvalidResponse whose message contains the raw body,
\* whatever the HTTP status.
C16_UnparseableIsInvalidResponse ==
    \A c \in Calls :
        (pc[c] = "done" /\ Unparseable(loc[c].response) /\ loc[c].response.body.raw # "") =>
            /\ result[c].kind = "Err" /\ result[c].variant = "InvalidResponse"
            /\ ContainsBody(result[c].msg, loc[c].response.body.raw)

\* C16 as amended: the same of a body that holds more than whitespace.
C16_UnparseableNonBlankIsInvalidResponse ==
    \A c \in Calls :
        (/\ pc[c] = "done" /\ Unparseable(loc[c].response)
         /\ loc[c].response.body.raw \notin {"", " ", "\n", " \r\n\t"}) =>
            /\ result[c].kind = "Err" /\ result[c].variant = "InvalidResponse"
            /\ ContainsBody(result[c].msg, loc[c].response.body.raw)
            /\ result[c].status = None

C16_Witness ==
    \E c \in Calls :
        /\ pc[c] = "done"
        /\ loc[c].response = HttpResponse(502, TextBody("<html>Bad Gateway</html>"))
        /\ result[c].kind = "Err" /\ result[c].variant = "InvalidResponse"
        /\ ContainsBody(result[c].msg, "<html>Bad Gateway</html>")

\* str::split('.') with the empty pieces dropped, over the messages the model serves.
SplitOnDot(text) ==
    CASE text = "bad request" -> <<"bad request">>
      [] text = "Invalid data." -> <<"Invalid data">>
      [] text = "too big" -> <<"too big">>

\* The discrete error strings an error value carries: ApiError holds one String.
ErrorStrings(r) == <<r.msg>>

\* A JSON object whose members have the documented types, the status an integer.
WellFormed(r) ==
    /\ r.net = "http" /\ r.body.json
    /\ r.body.doc.status.t \in {"absent", "null", "num"}
    /\ \A f \in {"id", "url", "deletetoken", "message"} : r.body.doc[f].t \in {"absent", "null", "str"}

\* C17: every non-zero integer status of a well-formed response, whatever its
\* magnitude, ends the invocation with ApiError carrying the server's message
\* split on '.'; an absent or zero status never does.
C17_NonZeroStatusIsApiError ==
    \A c \in Calls :
        (pc[c] = "done" /\ WellFormed(loc[c].response)) =>
            LET doc == loc[c].response.body.doc
            IN  IF doc.status.t = "num" /\ doc.status.n # 0
                THEN /\ result[c].kind = "Err" /\ result[c].variant = "ApiError"
                     /\ doc.message.t = "str" => ErrorStrings(result[c]) = SplitOnDot(doc.message.s)
                ELSE ~(result[c].kind = "Err" /\ result[c].variant = "ApiError")

StatusAbsentOrZero(doc) ==
    doc.status.t \in {"absent", "null"} \/ (doc.status.t = "num" /\ doc.status.n = 0)

MissingMembers(doc) == {f \in {"id", "url", "deletetoken"} : doc[f].t # "str"}

\* C18: when the response parses and its status is absent or 0, the invocation
\* succeeds only if id, url and deletetoken are all present; with any of them
\* missing it ends with InvalidResponse, returns no link and prints none.
C18_SuccessNeedsAllThree ==
    \A c \in Calls :
        (/\ pc[c] = "done" /\ WellFormed(loc[c].response)
         /\ StatusAbsentOrZero(loc[c].response.body.doc)) =>
            LET missing == MissingMembers(loc[c].response.body.doc)
            IN  /\ result[c].kind = "Ok" => missing = {}
                /\ missing # {} =>
                      /\ result[c].kind = "Err" /\ result[c].variant = "InvalidResponse"
                      /\ DOMAIN result[c] \cap {"id", "url", "deletetoken", "secret"} = {}
                      /\ proc[c].stdout = <<>>

C18_Witness ==
    \E c \in Calls :
        /\ pc[c] = "done"
        /\ MissingMembers(loc[c].response.body.doc) = {"deletetoken"}
        /\ StatusAbsentOrZero(loc[c].response.body.doc) /\ loc[c].response.body.json
        /\ result[c] = Err("InvalidResponse", "Missing delete token", None, None)

\* Everything a paste needs has happened in run c: content, one seal, a valid
\* URL, one request, one response with a body that parsed, status absent or 0,
\* id, url and deletetoken present.
PasteCreated(c) ==
    /\ Called(c) /\ (args[c].plaintext.some \/ args[c].attachment.some)
    /\ Len(seals[c]) = 1 /\ loc[c].ct # NoSealed
    /\ args[c].url.scheme \in HttpSchemes
    /\ Len(posts[c]) = 1
    /\ WellFormed(loc[c].response)
    /\ loc[c].response.body.raw \notin {"", " ", "\n", " \r\n\t"}
    /\ ParsePasteResponse(loc[c].response.body).ok
    /\ StatusAbsentOrZero(loc[c].response.body.doc)
    /\ MissingMembers(loc[c].response.body.doc) = {}

CryptoFailure(c) ==
    /\ loc[c].ivTag # NoTag /\ pc[c] # "seal"
    /\ loc[c].kdf_key.len # 32 \/ Len(loc[c].cipher_iv) # 12

RECURSIVE JoinMembers(_)
JoinMembers(ms) ==
    IF ms = <<>> THEN <<>>
    ELSE IF Len(ms) = 1 THEN ms[1]
    ELSE ms[1] \o <<P(",")>> \o JoinMembers(Tail(ms))

BlobOfPresentFields(a) ==
    LET member(k, v) == IF v.some THEN << <<K(k), S(v.v)>> >> ELSE <<>>
    IN  <<P("{")>>
            \o JoinMembers(member("paste", a.plaintext) \o member("attachment", a.attachment)
                               \o member("attachment_name", a.attachment_name))
            \o <<P("}")>>

\* C21: the blob that is sealed holds the present fields only, in the order
\* paste, attachment, attachment_name: {"paste":"hello"} for the text "hello"
\* alone, and no paste key at all for an attachment without text.
C21_BlobOmitsAbsentFields ==
    \A c \in Calls :
        Len(seals[c]) = 1 =>
            /\ loc[c].ct.pt.json = BlobOfPresentFields(args[c])
            /\ ~args[c].plaintext.some => ~Has(loc[c].ct.pt.json, K("paste"))
            /\ (args[c].plaintext = Some("hello") /\ ~args[c].attachment.some
                    /\ ~args[c].attachment_name.some)
                  => loc[c].ct.pt.json = <<P("{"), K("paste"), S("hello"), P("}")>>

\* The UTF-8 bytes of the passwords of the runs.
PasswordBytes(password) ==
    IF ~password.some \/ password.v = "" THEN <<>>
    ELSE IF password.v = "pw" THEN <<112, 119>>
    ELSE <<115, 51, 99, 114, 101, 116>>

KeyDerived(c) == loc[c].saltTag # NoTag

\* C22: the secret handed to the KDF is the 32 passphrase bytes followed by the
\* password bytes and nothing else; without a password, and with the empty
\* password, it is the passphrase alone (so both derive one key), and a
\* non-empty password makes it differ from the passphrase.
C22_KdfInputIsPassphraseThenPassword ==
    \A c \in Calls :
        KeyDerived(c) =>
            LET passphrase == loc[c].passphrase
                password == args[c].password
            IN  /\ Len(passphrase) = 32
                /\ loc[c].kdf_key.secret = passphrase \o PasswordBytes(password)
                /\ (~password.some \/ password.v = "") =>
                      loc[c].kdf_key = pbkdf2_derive(loc[c].kdf_salt, passphrase, 32)
                /\ (password.some /\ password.v # "") =>
                      /\ loc[c].kdf_key.secret # passphrase
                      /\ SubSeq(loc[c].kdf_key.secret, 1, 32) = passphrase

C22_Witness ==
    \E c \in Calls :
        /\ KeyDerived(c) /\ args[c].password = Some("pw")
        /\ Len(loc[c].kdf_key.secret) = 34
        /\ loc[c].kdf_key.secret[33] = 112 /\ loc[c].kdf_key.secret[34] = 119

\* Byte strings next to the ones the runs draw: shorter ones, whose base64 is
\* padded, and ones that differ from a drawn one in the last byte only.
AdataByteStrings(drawn) ==
    drawn \cup {<<>>, <<0>>, <<0, 0>>, <<0, 0, 0>>, <<255>>, <<255, 255>>}
          \cup {[b EXCEPT ![Len(b)] = (b[Len(b)] + 1) % 256] : b \in drawn}

AdataInputs ==
    { <<iv, salt, f, od, bn, ct>> :
        iv \in AdataByteStrings(IvSamples), salt \in AdataByteStrings(SaltSamples),
        f \in {"plaintext", "markdown", "syntaxhighlighting"},
        od \in BOOLEAN, bn \in BOOLEAN, ct \in {"zlib", "none"} }

AdataOf(t) == prepare_associated_data(t[1], t[2], t[3], t[4], t[5], t[6])

\* The inputs invocation c gave to prepare_associated_data.
AdataInputsOf(c) ==
    << loc[c].cipher_iv, loc[c].kdf_salt, args[c].formatter, args[c].opendiscussion,
       args[c].burn, IF args[c].compress THEN "zlib" ELSE "none" >>

JustSealed(c) == pc[c] = "post" /\ Len(seals[c]) = 1

\* C23: prepare_associated_data is a function of its six inputs and injective in
\* them: the associated data of a sealed paste is the one these inputs give, and
\* no other nonce, salt, formatter, opendiscussion, burn or compression type
\* (changed one at a time or together) gives the same bytes.
C23_AdataInjective ==
    \A c \in Calls :
        JustSealed(c) =>
            /\ AdataInputsOf(c) \in AdataInputs
            /\ seals[c][1].aad = AdataOf(AdataInputsOf(c))
            /\ \A t \in AdataInputs : AdataOf(t) = seals[c][1].aad => t = AdataInputsOf(c)

C23_Witness ==
    \E c \in Calls :
        /\ JustSealed(c) /\ ~args[c].compress
        /\ \E t \in AdataInputs :
              /\ t[6] = "zlib" /\ \A k \in 1..5 : t[k] = AdataInputsOf(c)[k]
              /\ AdataOf(t) # seals[c][1].aad

\* The response of run c parsed, with status absent or 0 and id, url and
\* deletetoken present.
CompleteAnswer(r) ==
    /\ WellFormed(r) /\ ParsePasteResponse(r.body).ok
    /\ StatusAbsentOrZero(r.body.doc) /\ MissingMembers(r.body.doc) = {}

\* The response parsed and its status is a non-zero u8.
RefusedAnswer(r) ==
    /\ WellFormed(r) /\ ParsePasteResponse(r.body).ok
    /\ r.body.doc.status.t = "num" /\ r.body.doc.status.n # 0

FixedStatusMessage(status) == EmptyBodyPhrase(status) \o PhraseTail(EmptyBodyPhrase(status))

\* C28: a complete answer is returned as success under any HTTP status, 4xx and
\* 5xx included; a refused answer under HTTP 500, 502 or 503 is an ApiError
\* with the fixed message of that status in place of the server's message, and
\* under any other status with the server's message.
C28_HttpStatusMattersOnlyOnFailure ==
    \A c \in Calls :
        pc[c] = "done" =>
            LET r == loc[c].response
            IN  /\ CompleteAnswer(r) =>
                      /\ result[c].kind = "Ok"
                      /\ result[c].id = r.body.doc.id.s
                /\ RefusedAnswer(r) =>
                      /\ result[c].kind = "Err" /\ result[c].variant = "ApiError"
                      /\ result[c].status = Some(r.status)
                      /\ IF r.status \in {500, 502, 503}
                         THEN result[c].msg = FixedStatusMessage(r.status)
                         ELSE result[c].msg = (IF r.body.doc.message.t = "str"
                                               THEN r.body.doc.message.s ELSE "Unknown error")

\* 2^k and 100 * 2^(attempt-1) as integers of any width.
RECURSIVE RefPow2(_)
RefPow2(k) == IF k = 0 THEN <<1>> ELSE MulAdd(RefPow2(k - 1), 2, 0)

RefDelay(attempt) == StripHighZeros(MulAdd(RefPow2(attempt - 1), 100, 0))

PgSleeping == pg.pc = "sleep"

\* C24: the wait that follows failed attempt n is 100 * 2^(n-1) ms (100, 200,
\* 400 for attempts 1, 2, 3), and computing it never panics nor wraps, for
\* every retry limit the configuration accepts.
C24_BackoffDelayExact ==
    /\ pg.result # Panicked
    /\ PgSleeping =>
          /\ StripHighZeros(pg.delay) = RefDelay(pg.attempt)
          /\ pg.attempt = 1 => pg.delay = U64(100)
          /\ pg.attempt = 2 => pg.delay = U64(200)
          /\ pg.attempt = 3 => pg.delay = U64(400)

PgEvents(ev) == {k \in 1..Len(pg.log) : pg.log[k].ev = ev}

PgFailures ==
    {k \in PgEvents("response") : pg.log[k].outcome.kind = "Err"}

PgLastFailure == CHOOSE k \in PgFailures : \A j \in PgFailures : j <= k

PgDone == pg.pc = "done"

\* C25: generate_via_api sends at most max_retries requests, one per attempt in
\* order; a backoff wait comes only right after a failed attempt whose number
\* is below max_retries, never after the last one; and when max_retries
\* attempts have failed the call ends with the error of the last request.
C25_RetryLoopBounded ==
    /\ Cardinality(PgEvents("request")) <= pg.config.max_retries
    /\ \A k \in PgEvents("request") :
          pg.log[k].attempt = Cardinality({j \in PgEvents("request") : j <= k})
    /\ \A k \in PgEvents("sleep") :
          /\ pg.log[k].attempt < pg.config.max_retries
          /\ k - 1 \in PgFailures
          /\ pg.log[k - 1].attempt = pg.log[k].attempt
    /\ (PgDone /\ pg.config.max_retries > 0
              /\ Cardinality(PgFailures) = pg.config.max_retries) =>
          /\ pg.result = PgErr(pg.log[PgLastFailure].outcome.msg)
          /\ pg.log[PgLastFailure].attempt = pg.config.max_retries
          /\ pg.log[Len(pg.log)].ev = "response"

C25_Witness ==
    /\ PgDone /\ pg.config.max_retries = DEFAULT_MAX_RETRIES
    /\ Cardinality(PgFailures) = DEFAULT_MAX_RETRIES
    /\ Cardinality(PgEvents("sleep")) = DEFAULT_MAX_RETRIES - 1
    /\ pg.result = PgErr("Failed to read response body")
    /\ pg.log[2].outcome = PgErr("error sending request")

\* The responses that were read and parsed but hold another number of
\* passwords than config.count.
PgMiscounts ==
    {k \in PgEvents("response") :
        /\ pg.log[k].outcome.kind = "Ok"
        /\ Len(pg.log[k].outcome.passwords) # pg.config.count}

\* C29: generate_via_api returns Ok only with exactly config.count passwords.
\* A parsed response with another count uses up its attempt: the next request
\* follows it at once, with no wait in between, and no error is recorded for
\* it.  When every attempt ended so, or max_retries is 0 and nothing was sent,
\* the call fails with "Failed after N attempts".
C29_WrongCountUsesAnAttempt ==
    /\ (PgDone /\ pg.result.kind = "Ok") =>
          /\ Len(pg.result.passwords) = pg.config.count
          /\ pg.result = pg.log[Len(pg.log)].outcome
    /\ \A k \in PgMiscounts :
          IF k < Len(pg.log)
          THEN pg.log[k + 1] = [ev |-> "request", attempt |-> pg.log[k].attempt + 1]
          ELSE \/ pg.pc = "request" /\ pg.attempt = pg.log[k].attempt + 1
               \/ PgDone /\ pg.result.kind = "Err" /\ pg.log[k].attempt = pg.config.max_retries
    /\ pg.last_error = IF PgFailures = {} THEN None
                       ELSE Some(pg.log[PgLastFailure].outcome.msg)
    /\ (PgDone /\ Cardinality(PgMiscounts) = pg.config.max_retries) =>
          /\ pg.result = PgErr("Failed after " \o ToString(pg.config.max_retries) \o " attempts")
          /\ Cardinality(PgEvents("request")) = pg.config.max_retries
          /\ PgEvents("sleep") = {}

C29_Witness ==
    /\ PgDone /\ pg.config = PgConfig(2, DEFAULT_MAX_RETRIES)
    /\ Cardinality(PgMiscounts) = DEFAULT_MAX_RETRIES
    /\ Len(pg.log) = 2 * DEFAULT_MAX_RETRIES
    /\ pg.result = PgErr("Failed after 3 attempts")

\* Names that are empty once surrounding whitespace is taken off, and what is
\* left of the others.
BlankNames == {"", "  "}
Stripped(name) == IF name = " b " THEN "b" ELSE IF name = "a\n" THEN "a" ELSE name

Ids(rows) == {r.id : r \in rows}

LastWas(op) == todo.last.op = op

\* The table is the table before the last command plus one new row of the
\* stripped name, not done, under an id no row had.
OneRowAdded ==
    \E r \in todo.rows \ todo.last.before :
        /\ todo.rows = todo.last.before \cup {r}
        /\ r.name = Stripped(todo.last.name) /\ r.is_done = 0
        /\ r.id \notin Ids(todo.last.before)

\* C26 as stated: add_task with an empty or whitespace-only name returns
\* InvalidInput and leaves the table as it was; with any other name it inserts
\* exactly one row with the trimmed name and is_done = 0 and changes no other.
C26_AddInsertsOneRow ==
    LastWas("add") =>
        IF todo.last.name \in BlankNames
        THEN /\ todo.last.result.kind = "Err" /\ todo.last.result.variant = "InvalidInput"
             /\ todo.rows = todo.last.before
        ELSE OneRowAdded

\* C26, amended: as stated, unless the database refuses the INSERT: then
\* add_task returns the Database error and the table is as it was.
C26_AddInsertsOneRowUnlessRefused ==
    LastWas("add") =>
        IF todo.last.name \in BlankNames
        THEN /\ todo.last.result.kind = "Err" /\ todo.last.result.variant = "InvalidInput"
             /\ todo.rows = todo.last.before
        ELSE \/ todo.last.result = TodoOk /\ OneRowAdded
             \/ /\ todo.last.result.kind = "Err" /\ todo.last.result.variant = "Database"
                /\ todo.rows = todo.last.before

C26_Witness ==
    /\ LastWas("add") /\ todo.last.name = " b " /\ todo.last.result = TodoOk
    /\ todo.last.before = {Row(1, "a", 1)}
    /\ todo.rows = {Row(1, "a", 1), Row(2, "b", 0)}

\* The table is the table before the last command without the row of the id.
RowDeleted ==
    /\ todo.rows = {r \in todo.last.before : r.id # todo.last.id}
    /\ Cardinality(todo.rows) = Cardinality(todo.last.before) - 1

\* The table is the table before the last command with the row of the id done.
RowCompleted ==
    /\ Ids(todo.rows) = Ids(todo.last.before)
    /\ Cardinality(todo.rows) = Cardinality(todo.last.before)
    /\ \A r \in todo.rows :
          IF r.id = todo.last.id
          THEN r.is_done = 1 /\ \E b \in todo.last.before : r = [b EXCEPT !.is_done = 1]
          ELSE r \in todo.last.before

IdNotFound ==
    /\ todo.last.result = TodoErr("TaskNotFound", todo.last.id)
    /\ todo.rows = todo.last.before

\* C27 as stated: after any sequence of commands, remove_task and complete_task
\* on an id the table does not hold return TaskNotFound(id) and leave the table
\* as it was; on an id it holds, remove deletes exactly that row and complete
\* sets is_done = 1 on exactly that row.
C27_MissingIdIsTaskNotFound ==
    (LastWas("remove") \/ LastWas("complete")) =>
        IF todo.last.id \notin Ids(todo.last.before) THEN IdNotFound
        ELSE IF LastWas("remove") THEN RowDeleted ELSE RowCompleted

\* C27, amended: as stated, unless the database refuses the statement: then
\* the call returns the Database error and the table is as it was.
C27_MissingIdIsTaskNotFoundUnlessRefused ==
    (LastWas("remove") \/ LastWas("complete")) =>
        \/ /\ todo.last.result.kind = "Err" /\ todo.last.result.variant = "Database"
           /\ todo.rows = todo.last.before
        \/ IF todo.last.id \notin Ids(todo.last.before) THEN IdNotFound
           ELSE /\ todo.last.result = TodoOk
                /\ IF LastWas("remove") THEN RowDeleted ELSE RowCompleted

C27_Witness ==
    /\ LastWas("remove") /\ todo.last.id = 1 /\ IdNotFound
    /\ todo.rows = {Row(2, "b", 1)} /\ todo.seq = 2

\* The positions of the lines of kind t (of any of the kinds ts) that were printed.
PomoLines(ts) == {k \in 1..Len(pomo.out) : pomo.out[k].t \in ts}

BreakLines == PomoLines({"Long break", "Short break"})

\* The sessions this run has recorded, after the ones read from the db file.
Loaded == Len(pomo.completed_sessions) - Cardinality(BreakLines)
Recorded(j) == pomo.completed_sessions[Loaded + j]

\* Every recorded session is one whose "Work done!" was printed by the read
\* of the flag after the countdown loop, and every break announced follows
\* such a session; the db file got the same records.
RecordedOnlyWhenDone ==
    /\ Loaded >= 0
    /\ \A k \in BreakLines :
          LET j == Cardinality({b \in BreakLines : b <= k})
          IN  /\ k > 2
              /\ pomo.out[k - 1] = Line("done!", "Work", 0, 0)
              /\ pomo.out[k - 2] = Line("Session", "", Recorded(j)[1], Recorded(j)[2])
              /\ pomo.out[k].n = Recorded(j)[1]
    /\ pomo.cfg.db_csv =>
          \A j \in 1..Cardinality(BreakLines) :
              pomo.db.rows[Len(pomo.db.rows) - Cardinality(BreakLines) + j]
                  = CsvRow(Recorded(j)[1], Recorded(j)[2])
    /\ Cardinality({k \in PomoLines({"done!"}) : pomo.out[k].label = "Work"})
          = Cardinality(BreakLines)
              + (IF pomo.pc = "after" /\ pomo.cd = "Work" /\ pomo.ret THEN 1 ELSE 0)

\* After the handler's store: every load of the flag gives false, sessions
\* are recorded no more, but for the one whose countdown had returned true
\* before the store, and the first countdown to end after the store ends the
\* loop.
StoppedForGood ==
    pomo.stop.stopped =>
        /\ ~pomo.running
        /\ Len(pomo.completed_sessions) - pomo.stop.at
              \in (IF pomo.stop.pending THEN {0, 1} ELSE {0})
        /\ pomo.stop.reads <= 1
        /\ (pomo.stop.reads = 1 /\ pomo.pc = "after") => ~pomo.ret
        /\ pomo.stop.reads = 1 =>
              /\ pomo.pc \in {"after", "exit"}
              /\ pomo.out[Len(pomo.out)].t \in
                    {"Interrupted!", "Pomodoro Summary:", "Session row", "Summary exported to CSV."}

\* A run that got past its arguments ends with the summary: one row for each
\* session of completed_sessions.
SummaryPrinted ==
    pomo.pc = "exit" =>
        IF pomo.exit = Some(1) THEN pomo.out = <<>>
        ELSE /\ pomo.exit = Some(0)
             /\ \E k \in PomoLines({"Pomodoro Summary:"}) :
                   /\ PomoLines({"Pomodoro Summary:"}) = {k}
                   /\ Len(pomo.out) >= k + Len(pomo.completed_sessions)
                   /\ \A j \in 1..Len(pomo.completed_sessions) :
                         pomo.out[k + j] = Line("Session row", "", pomo.completed_sessions[j][1],
                                                pomo.completed_sessions[j][2])
                   /\ PomoLines({"Session", "done!", "Interrupted!", "Long break",
                                 "Short break", "Press Enter"}) \subseteq 1..(k - 1)

\* Session n is followed by the long break when 4 divides n and by the short
\* break otherwise.
BreakByNumber ==
    \A k \in BreakLines :
        IF pomo.out[k].n % 4 = 0
        THEN pomo.out[k].t = "Long break" /\ pomo.out[k].len = pomo.cfg.long_break
        ELSE pomo.out[k].t = "Short break" /\ pomo.out[k].len = pomo.cfg.short_break

\* C30: under every interleaving of the Ctrl-C handler with main, a work
\* session is recorded (in completed_sessions and in the db CSV) only if its
\* countdown returned true, that is the flag was true at the load after the
\* countdown loop; once the flag is false no session after that one is
\* recorded and the loop ends at the next countdown that ends; the summary is
\* printed all the same; session n is followed by a long break exactly when n
\* is a multiple of 4.
C30_CtrlCStopsRecording ==
    /\ RecordedOnlyWhenDone
    /\ StoppedForGood
    /\ SummaryPrinted
    /\ BreakByNumber

C30_Witness ==
    /\ pomo.pc = "exit" /\ pomo.stop.stopped /\ pomo.stop.pending
    /\ pomo.stop.at = 3 /\ Len(pomo.completed_sessions) = 4
    /\ \E k \in BreakLines : pomo.out[k] = Line("Long break", "", 4, 2)
    /\ pomo.out[Len(pomo.out)] = Line("Summary exported to CSV.", "", 0, 0)

====
